---- MODULE Spec2Model ----
(***************************************************************************)
(* Model of the response cache (src/utils/caching.ts), of the two-pass     *)
(* generation gateway (src/services/geminiService.ts) and of the archive   *)
(* assembly (src/utils/fileConverter.ts) of Bedrock-Utility.                *)
(*                                                                         *)
(* A JavaScript string is a sequence of characters; every character is a   *)
(* one-element TLA+ string, except that a run of ordinary letters that has *)
(* no meaning to JSON ("files", "path", ...) is kept as one character.      *)
(* A JavaScript value is a record tagged by its type.                      *)
(***************************************************************************)
EXTENDS Integers, Sequences, FiniteSets, TLC

VARIABLES
    storage,    \* sessionStorage: key -> [present, text]
    cacheOp,    \* the cache call in progress in the cache specification
    keyOp,      \* the key derivations of the key and fingerprint specifications
    archiveOp,  \* the download of the download specification: inputs and outcome
    gatewayOp,  \* the call of another gateway operation in the operations specification
    ui,         \* the tools of the interface specification: loading flags, handlers
    inv,        \* the generateAddonFiles invocations in flight, by slot
    done,       \* the invocation that returned last: what its caller got
    started,    \* how many invocations have been started
    ghost       \* history: what the invocations have stored so far

vars == <<storage, cacheOp, keyOp, archiveOp, gatewayOp, ui, inv, done, started, ghost>>

----
(* Bounds of the model *)

MaxStrLen == 2
MaxFiles == 2
MaxTextLen == 3
MaxPartLen == 1
MaxInFlight == 2
MaxInvocations == 3
MaxPool == 2
MaxMappings == 2
MaxNameLen == 2

----
(* JavaScript values *)

QUOTE == "\""
BSLASH == "\\"
LF == "\n"

Undefined == [type |-> "undefined"]
Null == [type |-> "null"]
Threw == [type |-> "throw"]
Str(s) == [type |-> "string", chars |-> s]
Arr(xs) == [type |-> "array", items |-> xs]
Obj(ps) == [type |-> "object", props |-> ps]
Prop(k, v) == [key |-> k, val |-> v]

\* obj[k] in JavaScript: the value of the property, undefined when there is none.
RECURSIVE GetProp(_, _)
GetProp(v, k) ==
    IF v.type # "object" \/ v.props = <<>> THEN Undefined
    ELSE IF Head(v.props).key = k THEN Head(v.props).val
    ELSE GetProp(Obj(Tail(v.props)), k)

HasProp(v, k) == v.type = "object" /\ \E i \in 1..Len(v.props) : v.props[i].key = k

\* obj[k] = x in JavaScript: an existing property keeps its place, a new one is appended.
SetProp(v, k, x) ==
    IF HasProp(v, k)
    THEN Obj([i \in 1..Len(v.props) |->
                IF v.props[i].key = k THEN Prop(k, x) ELSE v.props[i]])
    ELSE Obj(Append(v.props, Prop(k, x)))

\* The truthiness test of if (x) and of !x.
Truthy(v) ==
    CASE v.type = "undefined" -> FALSE
      [] v.type = "null" -> FALSE
      [] v.type = "string" -> v.chars # <<>>
      [] OTHER -> TRUE

\* The names of the properties of an object whose value is not undefined.
DefinedKeys(v) == {v.props[i].key : i \in {j \in 1..Len(v.props) : v.props[j].val # Undefined}}

\* Deep equality of two values as a test's toEqual takes it: arrays element by
\* element, objects property by property whatever their order, a property whose
\* value is undefined counting as a property that is not there.
RECURSIVE Canon(_)
Canon(v) ==
    CASE v.type = "object" ->
            [type |-> "object", map |-> [k \in DefinedKeys(v) |-> Canon(GetProp(v, k))]]
      [] v.type = "array" ->
            [type |-> "array", items |-> [i \in 1..Len(v.items) |-> Canon(v.items[i])]]
      [] OTHER -> v

DeepEqual(a, b) == Canon(a) = Canon(b)

----
(* JSON.stringify *)

\* A serializer that escapes nothing.
EscapeCharNone(c) == <<c>>

EscapeChar(c) ==
    CASE c = QUOTE -> <<BSLASH, QUOTE>>
      [] c = BSLASH -> <<BSLASH, BSLASH>>
      [] c = LF -> <<BSLASH, "n">>
      [] OTHER -> <<c>>

RECURSIVE EscapeChars(_)
EscapeChars(s) ==
    IF s = <<>> THEN <<>> ELSE EscapeChar(Head(s)) \o EscapeChars(Tail(s))

QuoteString(s) == <<QUOTE>> \o EscapeChars(s) \o <<QUOTE>>

RECURSIVE JSONstringify(_), StringifyItems(_), StringifyProps(_, _)

\* The text of a value, or Undefined for a value that has none.
JSONstringify(v) ==
    CASE v.type = "undefined" -> Undefined
      [] v.type = "null" -> <<"null">>
      [] v.type = "string" -> QuoteString(v.chars)
      [] v.type = "array" -> <<"[">> \o StringifyItems(v.items) \o <<"]">>
      [] v.type = "object" -> <<"{">> \o StringifyProps(v.props, TRUE) \o <<"}">>

\* An undefined array element is written as null.
StringifyItems(xs) ==
    IF xs = <<>> THEN <<>>
    ELSE (IF Head(xs).type = "undefined" THEN <<"null">> ELSE JSONstringify(Head(xs)))
         \o (IF Tail(xs) = <<>> THEN <<>> ELSE <<",">> \o StringifyItems(Tail(xs)))

\* A property whose value is undefined is left out.
StringifyProps(ps, first) ==
    IF ps = <<>> THEN <<>>
    ELSE IF Head(ps).val.type = "undefined" THEN StringifyProps(Tail(ps), first)
    ELSE (IF first THEN <<>> ELSE <<",">>)
         \o QuoteString(Head(ps).key) \o <<":">> \o JSONstringify(Head(ps).val)
         \o StringifyProps(Tail(ps), FALSE)

\* String(x) as sessionStorage.setItem applies it to its second argument.
ToStorageString(t) == IF t = Undefined THEN <<"undefined">> ELSE t

----
(* JSON.parse *)

IsSpace(c) == c = " " \/ c = LF

RECURSIVE SkipSpace(_, _)
SkipSpace(t, i) ==
    IF i <= Len(t) /\ IsSpace(t[i]) THEN SkipSpace(t, i + 1) ELSE i

Fail == [ok |-> FALSE, val |-> Undefined, next |-> 0]
Parsed(v, n) == [ok |-> TRUE, val |-> v, next |-> n]

RECURSIVE ParseChars(_, _, _), ParseValue(_, _), ParseElements(_, _, _), ParseMembers(_, _, _)

\* The characters of a string literal, from the character after its opening quote.
ParseChars(t, i, acc) ==
    IF i > Len(t) THEN Fail
    ELSE IF t[i] = QUOTE THEN Parsed(Str(acc), i + 1)
    ELSE IF t[i] = BSLASH THEN
        IF i + 1 > Len(t) THEN Fail
        ELSE IF t[i + 1] = QUOTE \/ t[i + 1] = BSLASH
             THEN ParseChars(t, i + 2, Append(acc, t[i + 1]))
        ELSE IF t[i + 1] = "n" THEN ParseChars(t, i + 2, Append(acc, LF))
        ELSE Fail
    ELSE IF t[i] = LF THEN Fail
    ELSE ParseChars(t, i + 1, Append(acc, t[i]))

ParseValue(t, i0) ==
    LET i == SkipSpace(t, i0) IN
    IF i > Len(t) THEN Fail
    ELSE IF t[i] = QUOTE THEN ParseChars(t, i + 1, <<>>)
    ELSE IF t[i] = "null" THEN Parsed(Null, i + 1)
    ELSE IF t[i] = "[" THEN
        LET j == SkipSpace(t, i + 1) IN
        IF j <= Len(t) /\ t[j] = "]" THEN Parsed(Arr(<<>>), j + 1)
        ELSE ParseElements(t, j, <<>>)
    ELSE IF t[i] = "{" THEN
        LET j == SkipSpace(t, i + 1) IN
        IF j <= Len(t) /\ t[j] = "}" THEN Parsed(Obj(<<>>), j + 1)
        ELSE ParseMembers(t, j, Obj(<<>>))
    ELSE Fail

\* The elements of an array, from the first character of an element.
ParseElements(t, i, acc) ==
    LET e == ParseValue(t, i) IN
    IF ~e.ok THEN Fail
    ELSE LET j == SkipSpace(t, e.next) IN
         IF j > Len(t) THEN Fail
         ELSE IF t[j] = "]" THEN Parsed(Arr(Append(acc, e.val)), j + 1)
         ELSE IF t[j] = "," THEN ParseElements(t, j + 1, Append(acc, e.val))
         ELSE Fail

\* The members of an object, from the first character of a member.
ParseMembers(t, i0, acc) ==
    LET i == SkipSpace(t, i0) IN
    IF i > Len(t) \/ t[i] # QUOTE THEN Fail
    ELSE LET k == ParseChars(t, i + 1, <<>>) IN
         IF ~k.ok THEN Fail
         ELSE LET c == SkipSpace(t, k.next) IN
              IF c > Len(t) \/ t[c] # ":" THEN Fail
              ELSE LET e == ParseValue(t, c + 1) IN
                   IF ~e.ok THEN Fail
                   ELSE LET j == SkipSpace(t, e.next)
                            obj == SetProp(acc, k.val.chars, e.val)
                        IN IF j > Len(t) THEN Fail
                           ELSE IF t[j] = "}" THEN Parsed(obj, j + 1)
                           ELSE IF t[j] = "," THEN ParseMembers(t, j + 1, obj)
                           ELSE Fail

\* The value of a text, or Threw when the text is not JSON.
JSONparse(t) ==
    LET r == ParseValue(t, 1) IN
    IF r.ok /\ SkipSpace(t, r.next) = Len(t) + 1 THEN r.val ELSE Threw

----
(* generateCacheKey (src/utils/caching.ts) *)

\* Width of a SHA-256 digest in bytes.
DigestLen == 32

Buf(bs) == [type |-> "arraybuffer", bytes |-> bs]

\* new TextEncoder().encode(c) for one character: ASCII letters take one byte,
\* U+00E9 takes two; a run of letters kept as one character has a stand-in byte.
UTF8Char(c) ==
    CASE c = "a" -> <<97>>
      [] c = "b" -> <<98>>
      [] c = "|" -> <<124>>
      [] c = "U+00E9" -> <<195, 169>>
      [] c = "U+00EA" -> <<195, 170>>
      [] c = "File path: " -> <<1>>
      [] c = "---" -> <<2>>
      [] c = "binary assets:" -> <<3>>
      [] c = "This is the content of the file: " -> <<4>>
      [] c = "image/png" -> <<5>>
      [] c = "application/octet-stream" -> <<6>>
      [] c = ".json" -> <<7>>
      [] c = ".png" -> <<8>>
      [] c = ".JSON" -> <<9>>
      [] c = "application/json" -> <<11>>
      [] c = "path:" -> <<12>>
      [] c = ",content:" -> <<13>>
      [] c = "<devAddon instruction>" -> <<14>>
      [] c = "<summarizeAddon instruction>" -> <<15>>
      [] c = "summarize" -> <<16>>
      [] c = "generateBuildingImage" -> <<17>>
      [] c = "A digital art depiction of a Minecraft build of '" -> <<18>>
      [] c = "'..." -> <<19>>
      [] c = ";" -> <<59>>
      [] c = LF -> <<10>>
      [] c = " " -> <<32>>
      [] c = QUOTE -> <<34>>
      [] c = "-" -> <<45>>
      [] c = "A" -> <<65>>
      [] c = BSLASH -> <<92>>
      [] c = "n" -> <<110>>
      [] OTHER -> <<63>>

RECURSIVE TextEncode(_)
TextEncode(s) == IF s = <<>> THEN <<>> ELSE UTF8Char(Head(s)) \o TextEncode(Tail(s))

PartBytes(part) == IF part.type = "string" THEN TextEncode(part.chars) ELSE part.bytes

RECURSIVE TotalLength(_)
TotalLength(parts) ==
    IF parts = <<>> THEN 0 ELSE Len(PartBytes(Head(parts))) + TotalLength(Tail(parts))

\* combined.set(src, offset) on a Uint8Array.
TypedArraySet(combined, src, offset) ==
    [i \in 1..Len(combined) |->
        IF offset < i /\ i <= offset + Len(src) THEN src[i - offset] ELSE combined[i]]

\* The loop of generateCacheKey that copies every part at the running offset.
RECURSIVE CopyParts(_, _, _)
CopyParts(parts, combined, offset) ==
    IF parts = <<>> THEN combined
    ELSE LET src == PartBytes(Head(parts)) IN
         CopyParts(Tail(parts), TypedArraySet(combined, src, offset), offset + Len(src))

Combined(parts) == CopyParts(parts, [i \in 1..TotalLength(parts) |-> 0], 0)

\* crypto.subtle.digest('SHA-256', combined), taken to be collision-free: a
\* fixed-width value that differs for different inputs (the input padded with
\* zero bytes, its length in the last byte).
Digest(bytes) ==
    [i \in 1..DigestLen |->
        IF i <= Len(bytes) /\ i < DigestLen THEN bytes[i]
        ELSE IF i = DigestLen THEN Len(bytes) ELSE 0]

HexDigits == <<"0", "1", "2", "3", "4", "5", "6", "7", "8", "9", "a", "b", "c", "d", "e", "f">>

\* b.toString(16)
ToString16(b) ==
    IF b < 16 THEN <<HexDigits[b + 1]>>
    ELSE <<HexDigits[(b \div 16) + 1], HexDigits[(b % 16) + 1]>>

\* s.padStart(2, '0')
PadStart2(s) == IF Len(s) < 2 THEN <<"0">> \o s ELSE s

\* A byte in hexadecimal without the padding to two digits.
ByteToHexUnpadded(b) == ToString16(b)

ByteToHex(b) == PadStart2(ToString16(b))

RECURSIVE JoinHex(_)
JoinHex(bs) == IF bs = <<>> THEN <<>> ELSE ByteToHex(Head(bs)) \o JoinHex(Tail(bs))

generateCacheKey(parts) == JoinHex(Digest(Combined(parts)))

----
(* The response cache (src/utils/caching.ts) *)

NoItem == [present |-> FALSE, text |-> <<>>]
Item(t) == [present |-> TRUE, text |-> t]

\* The try block of getFromCache: Threw when getItem or JSON.parse throws.
getFromCacheTry(store, key, accessFails) ==
    IF accessFails THEN Threw
    ELSE LET item == store[key] IN
         IF ~item.present \/ item.text = <<>> THEN Null
         ELSE JSONparse(item.text)

\* getFromCache without its catch block.
getFromCacheUncaught(store, key, accessFails) == getFromCacheTry(store, key, accessFails)

\* getFromCache that finds nothing.
getFromCacheBlind(store, key, accessFails) == Null

\* getFromCache: the catch block turns every failure into null.
getFromCache(store, key, accessFails) ==
    LET r == getFromCacheTry(store, key, accessFails) IN
    IF r = Threw THEN Null ELSE r

\* The try block of setInCache; fails is "none", "stringify" or "quota".
setInCacheTry(store, key, data, fails) ==
    IF fails = "stringify" THEN [threw |-> TRUE, store |-> store]
    ELSE LET item == ToStorageString(JSONstringify(data)) IN
         IF fails = "quota" THEN [threw |-> TRUE, store |-> store]
         ELSE [threw |-> FALSE, store |-> [store EXCEPT ![key] = Item(item)]]

\* setInCache without its catch block.
setInCacheUncaught(store, key, data, fails) == setInCacheTry(store, key, data, fails)

\* setInCache that stores nothing.
setInCacheDropped(store, key, data, fails) == [threw |-> FALSE, store |-> store]

\* setInCache that keeps an entry that is there: the first writer wins.
setInCacheKeepFirst(store, key, data, fails) ==
    [threw |-> FALSE,
     store |-> IF store[key].present THEN store ELSE setInCacheTry(store, key, data, fails).store]

\* setInCache: the catch block swallows the failure.
setInCache(store, key, data, fails) ==
    [threw |-> FALSE, store |-> setInCacheTry(store, key, data, fails).store]

----
(* The generation gateway (src/services/geminiService.ts) *)

\* s.trim()
RECURSIVE TrimEnd(_)
TrimEnd(s) ==
    IF s # <<>> /\ IsSpace(s[Len(s)]) THEN TrimEnd(SubSeq(s, 1, Len(s) - 1)) ELSE s

Trim(s) == LET i == SkipSpace(s, 1) IN TrimEnd(SubSeq(s, i, Len(s)))

\* The two replace calls of parseJsonResponse: a leading markdown fence with its
\* json tag and a trailing fence are removed (a fence is one character here).
StripFence(s) ==
    LET a == IF s # <<>> /\ s[1] = "<fence>json" THEN Tail(s) ELSE s
    IN  IF a # <<>> /\ a[Len(a)] = "<fence>" THEN SubSeq(a, 1, Len(a) - 1) ELSE a

\* parseJsonResponse: the parsed value, or Threw for the Error it throws.
parseJsonResponse(responseText) == JSONparse(Trim(StripFence(Trim(responseText))))

ToLowerCaseChar(c) ==
    CASE c = "A" -> "a"
      [] c = ".JSON" -> ".json"
      [] c = ".MCPACK" -> ".mcpack"
      [] OTHER -> c

ToLowerCase(s) == [i \in 1..Len(s) |-> ToLowerCaseChar(s[i])]

EndsWith(s, suffix) ==
    Len(suffix) <= Len(s) /\ SubSeq(s, Len(s) - Len(suffix) + 1, Len(s)) = suffix

TEXT_EXTENSIONS == {<<".json">>, <<".js">>, <<".mcfunction">>, <<".lang">>, <<".md">>, <<".txt">>}

TextPart(t) == [kind |-> "text", text |-> t]
InlinePart(m, d) == [kind |-> "inlineData", mimeType |-> m, data |-> d]

FileHeader(name, content) == <<"File path: ">> \o name \o <<LF, LF, "---", LF, LF>> \o content

RECURSIVE JoinWith(_, _)
JoinWith(xs, sep) ==
    IF xs = <<>> THEN <<>>
    ELSE IF Len(xs) = 1 THEN xs[1]
    ELSE xs[1] \o sep \o JoinWith(Tail(xs), sep)

IsTextFile(f) == \E ext \in TEXT_EXTENSIONS : EndsWith(ToLowerCase(f.name), ext)

RECURSIVE SmartTextParts(_), BinaryFilePaths(_)
SmartTextParts(files) ==
    IF files = <<>> THEN <<>>
    ELSE (IF IsTextFile(Head(files))
          THEN <<TextPart(FileHeader(Head(files).name, Head(files).content))>> ELSE <<>>)
         \o SmartTextParts(Tail(files))

BinaryFilePaths(files) ==
    IF files = <<>> THEN <<>>
    ELSE (IF IsTextFile(Head(files)) THEN <<>> ELSE <<Head(files).name>>)
         \o BinaryFilePaths(Tail(files))

\* filesToSmartParts: text files with their content, then one list of the binary names.
filesToSmartParts(files) ==
    SmartTextParts(files)
    \o (IF BinaryFilePaths(files) # <<>>
        THEN <<TextPart(<<"binary assets:", LF, "-", " ">>
                        \o JoinWith(BinaryFilePaths(files), <<LF, "-", " ">>))>>
        ELSE <<>>)

\* filesToGenerativeParts: for every file a text part naming it and its inline data.
RECURSIVE filesToGenerativeParts(_)
filesToGenerativeParts(files) ==
    IF files = <<>> THEN <<>>
    ELSE LET f == Head(files) IN
         << TextPart(<<"This is the content of the file: ">> \o f.name),
            InlinePart(IF f.mime # <<>> THEN f.mime ELSE <<"application/octet-stream">>,
                       f.content) >>
         \o filesToGenerativeParts(Tail(files))

\* p.text || p.inlineData.mimeType
PartLabel(p) == IF p.kind = "text" /\ p.text # <<>> THEN p.text ELSE p.mimeType

\* The partIdentifier of generateAddonFiles.
PartIdentifier(parts) == JoinWith([i \in 1..Len(parts) |-> PartLabel(parts[i])], <<"|">>)

RequestParts(rq) ==
    IF rq.useSmartParts THEN filesToSmartParts(rq.uploadedFiles)
    ELSE filesToGenerativeParts(rq.uploadedFiles)

RequestKey(rq) ==
    generateCacheKey(<< Str(rq.systemInstruction), Str(rq.prompt),
                        Str(PartIdentifier(RequestParts(rq))) >>)

----
(* Requests and collaborator responses of the model *)

File(n, m, c) == [name |-> n, mime |-> m, content |-> c]
Request(si, p, fs, smart) ==
    [systemInstruction |-> si, prompt |-> p, uploadedFiles |-> fs, useSmartParts |-> smart]

\* A request without files, and one with a text file sent as smart parts.
RequestList ==
    << Request(<<"a">>, <<"b", "a">>, <<>>, FALSE),
       Request(<<"a">>, <<"b">>, <<File(<<"A", ".JSON">>, <<>>, <<"n">>)>>, TRUE) >>

Requests == 1..Len(RequestList)
RequestKeys == [r \in Requests |-> RequestKey(RequestList[r])]
CacheKeys == {RequestKeys[r] : r \in Requests}

GeneratedFile(p, c) == Obj(<<Prop(<<"path">>, Str(p)), Prop(<<"content">>, Str(c))>>)
AssetMapping(o, n) == Obj(<<Prop(<<"originalPath">>, Str(o)), Prop(<<"newPath">>, Str(n))>>)

FileOne == GeneratedFile(<<"a">>, <<QUOTE, BSLASH, LF, "n">>)
FileTwo == GeneratedFile(<<"b">>, <<"{", "}">>)

ResultFull ==
    Obj(<< Prop(<<"files">>, Arr(<<FileOne>>)),
           Prop(<<"assetMappings">>, Arr(<<AssetMapping(<<"a", ".png">>, <<"b", ".png">>)>>)),
           Prop(<<"summaryReport">>, Str(<<"n", LF>>)) >>)
ResultFilesOnly == Obj(<<Prop(<<"files">>, Arr(<<FileTwo, FileOne>>))>>)
ResultEmpty == Obj(<<Prop(<<"files">>, Arr(<<>>)), Prop(<<"summaryReport">>, Str(<<"a">>))>>)
ResultNoFiles == Obj(<<Prop(<<"summaryReport">>, Str(<<"a">>))>>)

Response(t) == [kind |-> "text", text |-> t]
TransportFailure == [kind |-> "transport", text |-> <<>>]

\* What a call to the collaborator can come back with: a parseable result with
\* files (plain, or fenced and padded), a result with an empty or a missing
\* file list, a text that is not JSON, or a transport failure.
CollaboratorOutcomes ==
    { Response(JSONstringify(ResultFull)),
      Response(<<" ", "<fence>json", LF>> \o JSONstringify(ResultFilesOnly) \o <<LF, "<fence>", LF>>),
      Response(JSONstringify(ResultEmpty)),
      Response(JSONstringify(ResultNoFiles)),
      Response(<<"{", QUOTE, "files", QUOTE, ":">>),
      TransportFailure }

----
(* generateAddonFiles (src/services/geminiService.ts) *)

InitialEmptyError ==
    "The AI did not generate any files in the initial step. Your request might be too vague, unsupported, or against the safety policy. Please provide more specific details and try again."
VerificationSameError == InitialEmptyError
VerificationEmptyError ==
    "The AI failed to return any files during the verification step. This is an unexpected error. The initial files have been preserved. Please try again."
UnparseableError ==
    "The AI returned a response that couldn't be understood. This can happen with very complex or ambiguous requests. Please try simplifying your prompt, or try again."
TransportError == "generateContent rejected"

\* A generation that takes a text it cannot parse for a result with files.
performSingleGenerationCoerced(resp) ==
    IF resp.kind = "transport" THEN [threw |-> TRUE, error |-> TransportError, value |-> Undefined]
    ELSE LET r == parseJsonResponse(resp.text) IN
         IF r = Threw THEN [threw |-> FALSE, error |-> "", value |-> ResultFilesOnly]
         ELSE [threw |-> FALSE, error |-> "", value |-> r]

\* performSingleGeneration once the collaborator has answered.
performSingleGeneration(resp) ==
    IF resp.kind = "transport" THEN [threw |-> TRUE, error |-> TransportError, value |-> Undefined]
    ELSE LET r == parseJsonResponse(resp.text) IN
         IF r = Threw THEN [threw |-> TRUE, error |-> UnparseableError, value |-> Undefined]
         ELSE [threw |-> FALSE, error |-> "", value |-> r]

\* !result.files || result.files.length === 0
\* The test of the files that sees a missing list only.
NoFilesMissing(result) == ~Truthy(GetProp(result, <<"files">>))

NoFiles(result) ==
    LET f == GetProp(result, <<"files">>) IN
    ~Truthy(f) \/ (f.type = "array" /\ Len(f.items) = 0)

\* A verification pass whose own fields are kept.
CarryOverNothing(finalResult, initialResult) == finalResult

\* The two assignments that carry the first pass's fields over.
CarryOver(finalResult, initialResult) ==
    SetProp(SetProp(finalResult, <<"assetMappings">>, GetProp(initialResult, <<"assetMappings">>)),
            <<"summaryReport">>, GetProp(initialResult, <<"summaryReport">>))

Generation == [resp \in CollaboratorOutcomes |-> performSingleGeneration(resp)]

Slots == 1..MaxInFlight

IdleInv ==
    [pc |-> "idle", req |-> 0, cacheKey |-> <<>>, initialResult |-> Undefined, calls |-> 0,
     present |-> FALSE, latest |-> Undefined, prior |-> {}]

\* What the caller of invocation v gets, with what the invocation saw and did:
\* outcome is "hit", "ok" or "error"; second is the parsed result of the
\* verification pass; cacheWrite is "none", "stored" or "failed".
Returned(v, outcome, value, error, second, cacheWrite) ==
    [outcome |-> outcome, value |-> value, error |-> error,
     req |-> v.req, cacheKey |-> v.cacheKey, calls |-> v.calls,
     present |-> v.present, latest |-> v.latest, prior |-> v.prior,
     initialResult |-> v.initialResult, secondResult |-> second, cacheWrite |-> cacheWrite]

NoneDone == Returned(IdleInv, "none", Undefined, "", Undefined, "none")

Thrown(v, e, second) == Returned(v, "error", Undefined, e, second, "none")

\* cacheOp, keyOp, archiveOp, gatewayOp and ui outside their own specifications.
CacheIdle == [op |-> "none"]
KeyIdle == [phase |-> "none"]
ArchiveIdle == [phase |-> "none"]
GatewayOpIdle == [pc |-> "none"]
UiIdle == [tool |-> "none"]

\* generateAddonFiles up to its first await of the collaborator: the parts, the
\* key, the cache lookup; a hit returns, a miss issues the first call. An
\* invocation takes the lowest free slot. present, latest and prior record what
\* the cache and the history held at the lookup.
Invoke(i, r) ==
    /\ inv[i].pc = "idle"
    /\ \A j \in Slots : j < i => inv[j].pc # "idle"
    /\ started < MaxInvocations
    /\ started' = started + 1
    /\ LET cacheKey == RequestKeys[r]
           cachedData == getFromCache(storage, cacheKey, FALSE)
           v == [IdleInv EXCEPT !.req = r, !.cacheKey = cacheKey,
                                !.present = storage[cacheKey].present,
                                !.latest = ghost.written[cacheKey],
                                !.prior = ghost.finals[r]]
       IN  IF Truthy(cachedData)
           THEN /\ done' = Returned(v, "hit", cachedData, "", Undefined, "none")
                /\ UNCHANGED inv
           ELSE /\ inv' = [inv EXCEPT ![i] = [v EXCEPT !.pc = "generating", !.calls = 1]]
                /\ UNCHANGED done
    /\ UNCHANGED <<storage, cacheOp, keyOp, archiveOp, gatewayOp, ui, ghost>>

\* A first pass whose result is returned without the verification pass.
FirstResponseUnverified(i, resp) ==
    /\ inv[i].pc = "generating"
    /\ LET g == Generation[resp] IN
       IF g.threw
       THEN done' = Thrown(inv[i], g.error, Undefined)
       ELSE IF NoFiles(g.value)
       THEN done' = Thrown([inv[i] EXCEPT !.initialResult = g.value], InitialEmptyError, Undefined)
       ELSE done' = Returned([inv[i] EXCEPT !.initialResult = g.value],
                             "ok", g.value, "", Undefined, "none")
    /\ inv' = [inv EXCEPT ![i] = IdleInv]
    /\ UNCHANGED <<storage, cacheOp, keyOp, archiveOp, gatewayOp, ui, started, ghost>>

\* The first pass comes back: a failure or an empty result ends the invocation,
\* otherwise the verification call is issued.
FirstResponse(i, resp) ==
    /\ inv[i].pc = "generating"
    /\ LET g == Generation[resp] IN
       IF g.threw
       THEN /\ done' = Thrown(inv[i], g.error, Undefined)
            /\ inv' = [inv EXCEPT ![i] = IdleInv]
       ELSE IF NoFiles(g.value)
       THEN /\ done' = Thrown([inv[i] EXCEPT !.initialResult = g.value],
                              InitialEmptyError, Undefined)
            /\ inv' = [inv EXCEPT ![i] = IdleInv]
       ELSE /\ inv' = [inv EXCEPT ![i] =
                        [@ EXCEPT !.pc = "verifying", !.initialResult = g.value, !.calls = 2]]
            /\ UNCHANGED done
    /\ UNCHANGED <<storage, cacheOp, keyOp, archiveOp, gatewayOp, ui, started, ghost>>

\* A verification pass that stores its result before it tests it for files.
SecondResponseStoredEarly(i, resp) ==
    /\ inv[i].pc = "verifying"
    /\ inv' = [inv EXCEPT ![i] = IdleInv]
    /\ LET g == Generation[resp]
           finalResult == CarryOver(g.value, inv[i].initialResult)
       IN  IF g.threw
           THEN /\ done' = Thrown(inv[i], g.error, Undefined)
                /\ UNCHANGED <<storage, ghost>>
           ELSE /\ storage' = setInCache(storage, inv[i].cacheKey, finalResult, "none").store
                /\ done' = IF NoFiles(finalResult)
                           THEN Thrown(inv[i], VerificationEmptyError, g.value)
                           ELSE Returned(inv[i], "ok", finalResult, "", g.value, "stored")
                /\ ghost' = IF NoFiles(finalResult) THEN ghost
                            ELSE [written |-> [ghost.written EXCEPT ![inv[i].cacheKey] = finalResult],
                                  finals |-> [ghost.finals EXCEPT ![inv[i].req] = @ \cup {finalResult}]]
    /\ UNCHANGED <<cacheOp, keyOp, archiveOp, gatewayOp, ui, started>>

\* The verification pass comes back: the rest of generateAddonFiles.
SecondResponse(i, resp) ==
    /\ inv[i].pc = "verifying"
    /\ inv' = [inv EXCEPT ![i] = IdleInv]
    /\ LET g == Generation[resp]
           finalResult == CarryOver(g.value, inv[i].initialResult)
       IN  IF g.threw
           THEN /\ done' = Thrown(inv[i], g.error, Undefined)
                /\ UNCHANGED <<storage, ghost>>
           ELSE IF NoFiles(finalResult)
           THEN /\ done' = Thrown(inv[i], VerificationEmptyError, g.value)
                /\ UNCHANGED <<storage, ghost>>
           ELSE \E fails \in {"none", "stringify", "quota"} :
                LET w == setInCache(storage, inv[i].cacheKey, finalResult, fails)
                    cacheWrite == IF fails = "none" THEN "stored" ELSE "failed"
                IN
                /\ storage' = w.store
                /\ done' = IF w.threw
                           THEN Returned(inv[i], "error", Undefined, "setInCache threw",
                                         g.value, cacheWrite)
                           ELSE Returned(inv[i], "ok", finalResult, "", g.value, cacheWrite)
                /\ ghost' = IF fails = "none"
                            THEN [written |-> [ghost.written EXCEPT ![inv[i].cacheKey] = finalResult],
                                  finals |-> [ghost.finals EXCEPT ![inv[i].req] = @ \cup {finalResult}]]
                            ELSE ghost
    /\ UNCHANGED <<cacheOp, keyOp, archiveOp, gatewayOp, ui, started>>

Init ==
    /\ storage = [k \in CacheKeys |-> NoItem]
    /\ inv = [i \in Slots |-> IdleInv]
    /\ done = NoneDone
    /\ started = 0
    /\ ghost = [written |-> [k \in CacheKeys |-> Undefined], finals |-> [r \in Requests |-> {}]]
    /\ cacheOp = CacheIdle
    /\ keyOp = KeyIdle
    /\ archiveOp = ArchiveIdle
    /\ gatewayOp = GatewayOpIdle
    /\ ui = UiIdle

Next ==
    \/ \E i \in Slots, r \in Requests : Invoke(i, r)
    \/ \E i \in Slots, resp \in CollaboratorOutcomes : FirstResponse(i, resp)
    \/ \E i \in Slots, resp \in CollaboratorOutcomes : SecondResponse(i, resp)

Spec == Init /\ [][Next]_vars

----
(* Properties of generateAddonFiles, under Spec *)

Returns == done.outcome # "none"
FirstPassParsed(d) == d.initialResult # Undefined
InFlight(i) == inv[i].pc # "idle"

\* The result carries a list of files with at least one file in it.
HasFileList(result) ==
    /\ HasProp(result, <<"files">>)
    /\ GetProp(result, <<"files">>).type = "array"
    /\ GetProp(result, <<"files">>).items # <<>>

\* C1: an invocation that finds its key present in the cache returns the value
\* stored there and issues no call to the collaborator: it is never in flight,
\* and what it returned is a hit with zero calls, deep-equal to the value that
\* was stored last under the key.
C1_CacheShortCircuit ==
    /\ \A i \in Slots : InFlight(i) => ~inv[i].present
    /\ (Returns /\ done.present) =>
            /\ done.outcome = "hit"
            /\ done.calls = 0
            /\ DeepEqual(done.value, done.latest)

C1_Witness == done.outcome = "hit" /\ done.present /\ done.calls = 0

\* C2: a miss whose first pass parsed with at least one file always issues the
\* verification call: nothing is returned as a success, and nothing is written
\* to the cache, except by an invocation that has issued its second call, and an
\* invocation leaves the first pass without a second call only with an error
\* for a failed, unparseable or empty first pass.
C2_VerificationEnforced ==
    [][ /\ \A i \in Slots :
            /\ inv'[i].pc = "generating" => inv'[i].calls = 1
            /\ inv'[i].pc = "verifying" =>
                    inv'[i].calls = 2 /\ inv[i].pc \in {"generating", "verifying"}
            /\ (inv[i].pc = "generating" /\ inv'[i].pc = "idle") =>
                    /\ done'.outcome = "error"
                    /\ done'.calls = 1
                    /\ (FirstPassParsed(done') => ~HasFileList(done'.initialResult))
        /\ (started' # started /\ inv' = inv) => (done'.outcome = "hit" /\ done'.present)
        /\ ((\E i \in Slots : InFlight(i) /\ inv'[i].pc = "idle") /\ done'.outcome = "ok") =>
                /\ done'.calls = 2
                /\ \E i \in Slots : inv[i].pc = "verifying" /\ inv'[i].pc = "idle"
        /\ storage' # storage =>
                \E i \in Slots : inv[i].pc = "verifying" /\ inv[i].calls = 2 /\ inv'[i].pc = "idle"
      ]_vars

C2_Witness == done.outcome = "ok" /\ done.calls = 2 /\ done.cacheWrite = "stored"

\* C3: a first pass whose result has no files, because the list is missing or
\* empty, ends the invocation with an error after exactly one call; no
\* invocation with such a first-pass result awaits a verification call.
C3_FirstPassEmpty ==
    /\ \A i \in Slots : inv[i].pc = "verifying" => HasFileList(inv[i].initialResult)
    /\ (Returns /\ FirstPassParsed(done) /\ ~HasFileList(done.initialResult)) =>
            /\ done.outcome = "error"
            /\ done.error = InitialEmptyError
            /\ done.calls = 1
            /\ done.secondResult = Undefined

C3_Witness ==
    /\ done.outcome = "error"
    /\ done.calls = 1
    /\ GetProp(done.initialResult, <<"files">>) = Arr(<<>>)

\* C4: a verification pass that returns zero files ends the invocation with an
\* error that is not the error of an empty first pass, and nothing, the
\* first-pass files included, is returned as the result.
C4_VerificationEmpty ==
    (Returns /\ done.secondResult # Undefined /\ ~HasFileList(done.secondResult)) =>
        /\ done.outcome = "error"
        /\ done.error = VerificationEmptyError
        /\ done.error # InitialEmptyError
        /\ done.value = Undefined
        /\ done.cacheWrite = "none"

C4_Witness ==
    /\ done.outcome = "error"
    /\ done.secondResult # Undefined
    /\ ~HasFileList(done.secondResult)
    /\ HasFileList(done.initialResult)

\* What sessionStorage holds under a key after setInCache stored value v there.
StoredItem(v) == Item(ToStorageString(JSONstringify(v)))

\* C5 as stated: once an invocation that missed has completed and stored its
\* final result, every later invocation of the same request issues no call and
\* returns that same final result.
C5_LaterReturnsSameResult ==
    (Returns /\ done.prior # {}) =>
        /\ done.outcome = "hit"
        /\ done.calls = 0
        /\ \A v \in done.prior : DeepEqual(done.value, v)

\* C5 as amended: the cache holds, under the key derived before generation, the
\* final result that was stored last; an invocation of a request that some
\* earlier invocation has completed and stored issues no call and returns the
\* final result stored last under the key, which is a verified result of two
\* passes.
C5_LaterReturnsLastStored ==
    /\ \A k \in CacheKeys :
            ghost.written[k] # Undefined => storage[k] = StoredItem(ghost.written[k])
    /\ \A r \in Requests : \A v \in ghost.finals[r] : ghost.written[RequestKeys[r]] # Undefined
    /\ (Returns /\ done.outcome = "ok" /\ done.cacheWrite = "stored") =>
            /\ done.cacheKey = RequestKeys[done.req]
            /\ done.value \in ghost.finals[done.req]
    /\ (Returns /\ done.prior # {}) =>
            /\ done.outcome = "hit"
            /\ done.calls = 0
            /\ DeepEqual(done.value, done.latest)

C5_Witness ==
    /\ done.outcome = "hit"
    /\ Cardinality(done.prior) > 1
    /\ \E v \in done.prior : ~DeepEqual(done.value, v)

\* C8: when the write of setInCache fails, in serialization or in the storage,
\* nothing is thrown: the invocation that called it returns its final result as
\* a success, and the stored entries are what they were.
C8_SetFailureSwallowed ==
    [][ \A i \in Slots :
            (inv[i].pc = "verifying" /\ inv'[i].pc = "idle" /\ done'.cacheWrite = "failed") =>
                /\ storage' = storage
                /\ done'.outcome = "ok"
                /\ done'.calls = 2
                /\ HasFileList(done'.value)
      ]_vars

C8_Witness == done.cacheWrite = "failed" /\ done.outcome = "ok"

----
(* The cache on its own: setInCache and getFromCache on structured values *)

RECURSIVE SeqsUpTo(_, _)
\* The sequences over S of length at most n.
SeqsUpTo(S, n) ==
    IF n = 0 THEN {<<>>}
    ELSE LET shorter == SeqsUpTo(S, n - 1) IN
         shorter \cup {Append(q, c) : q \in shorter, c \in S}

\* Strings with the characters JSON has to escape, and a letter.
SpecialStrings == SeqsUpTo({QUOTE, BSLASH, LF, "n"}, MaxStrLen)

FileRecords(str, n) == [i \in 1..n |-> GeneratedFile(str, str)]

\* The structured values built around one string: the string, arrays of file
\* records, results as generateAddonFiles stores them (assetMappings and
\* summaryReport set, possibly to undefined), and a record nested in a record
\* under a key with special characters.
ValuesAround(str) ==
    {Str(str)}
    \cup {Arr(FileRecords(str, n)) : n \in 0..MaxFiles}
    \cup {Obj(<< Prop(<<"files">>, Arr(FileRecords(str, 1))),
                 Prop(<<"assetMappings">>, am),
                 Prop(<<"summaryReport">>, sr) >>) :
            am \in {Undefined, Arr(<<AssetMapping(str, str)>>)},
            sr \in {Undefined, Str(str)}}
    \cup {Obj(<<Prop(str, Obj(<<Prop(<<"plan">>, Arr(<<Str(str), Null, Arr(<<>>)>>))>>))>>)}

CacheValues == UNION {ValuesAround(str) : str \in SpecialStrings}

\* The value of an intervening write.
OtherValue == Obj(<<Prop(<<"files">>, Arr(<<FileTwo>>))>>)

\* holds[k] is what the last successful write put under k: "nothing", "data"
\* (the value of this behaviour) or "other".
CacheStart(data) ==
    [op |-> "none", key |-> <<>>, data |-> data, result |-> Undefined, threw |-> FALSE,
     fails |-> "none", holds |-> [k \in CacheKeys |-> "nothing"]]

\* setInCache(k, data), the write failing or not.
CacheSet(k, fails) ==
    /\ LET w == setInCache(storage, k, cacheOp.data, fails) IN
       /\ storage' = w.store
       /\ cacheOp' = [cacheOp EXCEPT !.op = "set", !.key = k, !.result = Undefined,
                                     !.threw = w.threw, !.fails = fails,
                                     !.holds[k] = IF fails = "none" THEN "data" ELSE @]
    /\ UNCHANGED <<keyOp, archiveOp, gatewayOp, ui, inv, done, started, ghost>>

\* setInCache(k, OtherValue): a write of another value.
CacheSetOther(k) ==
    /\ LET w == setInCache(storage, k, OtherValue, "none") IN
       /\ storage' = w.store
       /\ cacheOp' = [cacheOp EXCEPT !.op = "set", !.key = k, !.result = Undefined,
                                     !.threw = w.threw, !.fails = "none",
                                     !.holds[k] = "other"]
    /\ UNCHANGED <<keyOp, archiveOp, gatewayOp, ui, inv, done, started, ghost>>

\* getFromCache(k), the storage access failing or not; a result of Threw stands
\* for an exception that reaches the caller.
CacheGet(k, accessFails) ==
    /\ LET r == getFromCache(storage, k, accessFails) IN
       cacheOp' = [cacheOp EXCEPT !.op = "get", !.key = k,
                                  !.result = IF r = Threw THEN Undefined ELSE r,
                                  !.threw = (r = Threw),
                                  !.fails = IF accessFails THEN "access" ELSE "none"]
    /\ UNCHANGED <<storage, keyOp, archiveOp, gatewayOp, ui, inv, done, started, ghost>>

GatewayIdle ==
    /\ inv = [i \in Slots |-> IdleInv]
    /\ done = NoneDone
    /\ started = 0
    /\ ghost = [written |-> [k \in CacheKeys |-> Undefined], finals |-> [r \in Requests |-> {}]]

InitCache ==
    /\ storage = [k \in CacheKeys |-> NoItem]
    /\ \E data \in CacheValues : cacheOp = CacheStart(data)
    /\ keyOp = KeyIdle
    /\ archiveOp = ArchiveIdle
    /\ gatewayOp = GatewayOpIdle
    /\ ui = UiIdle
    /\ GatewayIdle

NextCache ==
    \/ \E k \in CacheKeys, fails \in {"none", "quota"} : CacheSet(k, fails)
    \/ \E k \in CacheKeys : CacheSetOther(k)
    \/ \E k \in CacheKeys, accessFails \in BOOLEAN : CacheGet(k, accessFails)

SpecCache == InitCache /\ [][NextCache]_vars

\* C6: getFromCache(key) after setInCache(key, value), with no write to the key
\* in between and no storage failure, returns a value deep-equal to value.
C6_CacheRoundTrip ==
    (cacheOp.op = "get" /\ cacheOp.fails = "none" /\ cacheOp.holds[cacheOp.key] = "data") =>
        /\ ~cacheOp.threw
        /\ DeepEqual(cacheOp.result, cacheOp.data)

C6_Witness ==
    /\ cacheOp.op = "get"
    /\ cacheOp.fails = "none"
    /\ cacheOp.holds[cacheOp.key] = "data"
    /\ HasProp(cacheOp.data, <<"assetMappings">>)
    /\ GetProp(cacheOp.data, <<"assetMappings">>) = Undefined
    /\ GetProp(cacheOp.data, <<"files">>) = Arr(FileRecords(<<BSLASH, "n">>, 1))
    /\ cacheOp.result # cacheOp.data

----
(* The cache on its own: getFromCache on whatever text the storage holds *)

\* The characters a stored text is made of.
TextChars == {"{", "}", "[", "]", QUOTE, BSLASH, "n", " ", "null"}

StoredTexts == SeqsUpTo(TextChars, MaxTextLen)

InitStored ==
    /\ \E k \in CacheKeys :
        \/ storage = [j \in CacheKeys |-> NoItem]
        \/ \E t \in StoredTexts : storage = [j \in CacheKeys |-> IF j = k THEN Item(t) ELSE NoItem]
    /\ cacheOp = CacheStart(Null)
    /\ keyOp = KeyIdle
    /\ archiveOp = ArchiveIdle
    /\ gatewayOp = GatewayOpIdle
    /\ ui = UiIdle
    /\ GatewayIdle

NextStored == \E k \in CacheKeys, accessFails \in BOOLEAN : CacheGet(k, accessFails)

SpecStored == InitStored /\ [][NextStored]_vars

\* C7: getFromCache never throws, and it returns null when the key is unseen,
\* when the stored text is not JSON, and when the storage access fails.
C7_MissOnCorruption ==
    cacheOp.op = "get" =>
        /\ ~cacheOp.threw
        /\ ~storage[cacheOp.key].present => cacheOp.result = Null
        /\ cacheOp.fails = "access" => cacheOp.result = Null
        /\ (storage[cacheOp.key].present /\ JSONparse(storage[cacheOp.key].text) = Threw)
                => cacheOp.result = Null

C7_Witness ==
    /\ cacheOp.op = "get"
    /\ cacheOp.fails = "none"
    /\ storage[cacheOp.key] = Item(<<"{", QUOTE, "n">>)
    /\ cacheOp.result = Null

----
(* Key derivation on its own: two lists of parts and their keys *)

\* generateAddonFiles derives its key from three parts: the system instruction,
\* the prompt and the fingerprint of the inputs.
NumParts == 3

KeyChars == {"a", "b", "U+00E9"}
KeyBytes == {97}

KeyParts ==
    {Str(t) : t \in SeqsUpTo(KeyChars, MaxPartLen)}
    \cup {Buf(bs) : bs \in SeqsUpTo(KeyBytes, MaxPartLen)}

PartLists == [1..NumParts -> KeyParts]

Elems(part) == IF part.type = "string" THEN part.chars ELSE part.bytes
WithElems(part, es) == IF part.type = "string" THEN Str(es) ELSE Buf(es)

\* Another character with as many bytes, another byte.
Partner(part, e) ==
    IF part.type = "string"
    THEN CASE e = "a" -> "b"
           [] e = "b" -> "a"
           [] OTHER -> "U+00EA"
    ELSE (e + 1) % 256

\* The lists that differ from parts in one byte of one part, all lengths kept.
Substituted(parts) ==
    {[parts EXCEPT ![p] = WithElems(@, [Elems(@) EXCEPT ![i] = Partner(parts[p], @)])] :
        <<p, i>> \in {q \in (1..NumParts) \X (1..MaxPartLen + 1) : q[2] <= Len(Elems(parts[q[1]]))}}

\* The lists that differ from parts in where the boundary between two adjacent
\* parts of one kind falls, the concatenation kept.
Shifted(parts) ==
    LET pairs == {p \in 1..NumParts - 1 : parts[p].type = parts[p + 1].type} IN
    {[parts EXCEPT ![p] = WithElems(@, SubSeq(Elems(@), 1, Len(Elems(@)) - 1)),
                   ![p + 1] = WithElems(@, <<Elems(parts[p])[Len(Elems(parts[p]))]>> \o Elems(@))] :
        p \in {q \in pairs : Elems(parts[q]) # <<>>}}
    \cup
    {[parts EXCEPT ![p] = WithElems(@, Append(Elems(@), Head(Elems(parts[p + 1])))),
                   ![p + 1] = WithElems(@, Tail(Elems(@)))] :
        p \in {q \in pairs : Elems(parts[q + 1]) # <<>>}}

Variants(parts) == {parts} \cup Substituted(parts) \cup Shifted(parts)

NoKey == <<>>

InitKey ==
    /\ \E first \in PartLists : \E second \in Variants(first) :
            keyOp = [phase |-> "start", first |-> first, second |-> second,
                     firstKey |-> NoKey, secondKey |-> NoKey]
    /\ storage = [k \in CacheKeys |-> NoItem]
    /\ cacheOp = CacheIdle
    /\ archiveOp = ArchiveIdle
    /\ gatewayOp = GatewayOpIdle
    /\ ui = UiIdle
    /\ GatewayIdle

\* await generateCacheKey(first)
DeriveFirst ==
    /\ keyOp.phase = "start"
    /\ keyOp' = [keyOp EXCEPT !.phase = "one", !.firstKey = generateCacheKey(keyOp.first)]
    /\ UNCHANGED <<storage, cacheOp, archiveOp, gatewayOp, ui, inv, done, started, ghost>>

\* await generateCacheKey(second)
DeriveSecond ==
    /\ keyOp.phase = "one"
    /\ keyOp' = [keyOp EXCEPT !.phase = "both", !.secondKey = generateCacheKey(keyOp.second)]
    /\ UNCHANGED <<storage, cacheOp, archiveOp, gatewayOp, ui, inv, done, started, ghost>>

NextKey == DeriveFirst \/ DeriveSecond

SpecKey == InitKey /\ [][NextKey]_vars

LowerHex == {HexDigits[i] : i \in 1..16}
HexValue(d) == (CHOOSE i \in 1..16 : HexDigits[i] = d) - 1

\* The key is the digest of the concatenated bytes in lowercase hexadecimal, two
\* digits for every byte.
IsHexOfDigest(key, parts) ==
    /\ Len(key) = 2 * DigestLen
    /\ \A i \in 1..Len(key) : key[i] \in LowerHex
    /\ \A j \in 1..DigestLen :
            16 * HexValue(key[2 * j - 1]) + HexValue(key[2 * j]) = Digest(Combined(parts))[j]

AllBytes(parts) == [p \in 1..NumParts |-> PartBytes(parts[p])]
SameLengths(a, b) == \A p \in 1..NumParts : Len(PartBytes(a[p])) = Len(PartBytes(b[p]))

\* C9: the same ordered parts give the same key; parts of the same lengths that
\* differ in a byte give different keys; a key is a lowercase hexadecimal string
\* of fixed length with two digits for every byte of the digest.
C9_KeyDerivation ==
    keyOp.phase = "both" =>
        /\ IsHexOfDigest(keyOp.firstKey, keyOp.first)
        /\ IsHexOfDigest(keyOp.secondKey, keyOp.second)
        /\ keyOp.first = keyOp.second => keyOp.firstKey = keyOp.secondKey
        /\ (SameLengths(keyOp.first, keyOp.second)
                /\ AllBytes(keyOp.first) # AllBytes(keyOp.second))
              => keyOp.firstKey # keyOp.secondKey

C9_Witness ==
    /\ keyOp.phase = "both"
    /\ SameLengths(keyOp.first, keyOp.second)
    /\ keyOp.first[2] = Str(<<"U+00E9">>)
    /\ keyOp.second[2] = Str(<<"U+00EA">>)
    /\ keyOp.firstKey # keyOp.secondKey
    /\ keyOp.firstKey[1] = "c"
    /\ keyOp.firstKey[2 * DigestLen - 1] = "0"

AllStrings(parts) == \A p \in 1..NumParts : parts[p].type = "string"

\* C10: two triples of instruction, prompt and fingerprint derive the same key
\* exactly when the triples are equal, triples that differ only in where the
\* boundary between two parts falls included.
C10_TripleInvariant ==
    (keyOp.phase = "both" /\ AllStrings(keyOp.first) /\ AllStrings(keyOp.second)) =>
        (keyOp.firstKey = keyOp.secondKey <=> keyOp.first = keyOp.second)

----
(* Archive assembly: downloadAddon and downloadMcaddonFromZips *)

\* A File the user uploaded: its name and its bytes, a blob known by a number.
\* A container also has the entries JSZip.loadAsync finds in it; a file that
\* JSZip.loadAsync rejects is unreadable.
AssetFile(name, bytes) ==
    [name |-> name, bytes |-> bytes, entries |-> <<>>, unreadable |-> FALSE]
ContainerFile(name, bytes, entries) ==
    [name |-> name, bytes |-> bytes, entries |-> entries, unreadable |-> FALSE]
BrokenContainer(name, bytes) ==
    [name |-> name, bytes |-> bytes, entries |-> <<>>, unreadable |-> TRUE]
NoFile == [name |-> <<>>, bytes |-> -1, entries |-> <<>>, unreadable |-> FALSE]

\* A JSZipObject of an uploaded container.
ZipEntry(name, dir, bytes) == [name |-> name, dir |-> dir, bytes |-> bytes]
NoEntry == ZipEntry(<<>>, FALSE, -1)

\* What an entry of the archive holds: the text of a generated file, or bytes.
TextContent(chars) == [kind |-> "text", chars |-> chars, bytes |-> -1]
BytesContent(bytes) == [kind |-> "bytes", chars |-> <<>>, bytes |-> bytes]

\* zip.file that keeps an entry that is there.
ZipFileKeep(zip, path, content) ==
    [q \in DOMAIN zip \cup {path} |-> IF q \in DOMAIN zip THEN zip[q] ELSE content]

\* new JSZip(), and zip.file(path, content): the entry at path is set, an entry
\* that was there is replaced.
NewZip == <<>>
ZipFile(zip, path, content) ==
    [q \in DOMAIN zip \cup {path} |-> IF q = path THEN content ELSE zip[q]]

\* Only the first generated file is written.
AddGeneratedFilesFirst(zip, files) ==
    IF files = <<>> THEN zip
    ELSE [q \in DOMAIN zip \cup {GetProp(Head(files), <<"path">>).chars} |->
            IF q \in DOMAIN zip THEN zip[q]
            ELSE TextContent(GetProp(Head(files), <<"content">>).chars)]

\* files.forEach(file => zip.file(file.path, file.content))
RECURSIVE AddGeneratedFiles(_, _)
AddGeneratedFiles(zip, files) ==
    IF files = <<>> THEN zip
    ELSE AddGeneratedFiles(
            ZipFile(zip, GetProp(Head(files), <<"path">>).chars,
                    TextContent(GetProp(Head(files), <<"content">>).chars)),
            Tail(files))

\* A choice that takes exact matches only.
ResolveLooseExactOnly(uploadedFiles, originalPath) ==
    LET Exact(uf) == uf.name = originalPath
        exactMatches == SelectSeq(uploadedFiles, Exact)
    IN  IF exactMatches = <<>> THEN [targetFile |-> NoFile, ambiguous |-> FALSE]
        ELSE [targetFile |-> Head(exactMatches), ambiguous |-> FALSE]

\* A choice that takes the first file that ends with originalPath.
ResolveLooseFirstMatch(uploadedFiles, originalPath) ==
    LET Matches(uf) == EndsWith(uf.name, originalPath)
        looseMatches == SelectSeq(uploadedFiles, Matches)
    IN  IF looseMatches = <<>> THEN [targetFile |-> NoFile, ambiguous |-> FALSE]
        ELSE [targetFile |-> Head(looseMatches), ambiguous |-> Len(looseMatches) > 1]

\* A choice that gives up when several files end with originalPath.
ResolveLooseUniqueOnly(uploadedFiles, originalPath) ==
    LET Matches(uf) == EndsWith(uf.name, originalPath)
        Exact(uf) == uf.name = originalPath
        looseMatches == SelectSeq(uploadedFiles, Matches)
        exactMatches == SelectSeq(looseMatches, Exact)
    IN  IF exactMatches # <<>> THEN [targetFile |-> Head(exactMatches), ambiguous |-> FALSE]
        ELSE IF Len(looseMatches) = 1 THEN [targetFile |-> Head(looseMatches), ambiguous |-> FALSE]
        ELSE [targetFile |-> NoFile, ambiguous |-> Len(looseMatches) > 1]

\* The choice among the uploaded files by their names: an exact match if there
\* is one among the files that end with originalPath, else the first of these,
\* with a warning when there are several.
ResolveLoose(uploadedFiles, originalPath) ==
    LET Matches(uf) == EndsWith(uf.name, originalPath)
        Exact(uf) == uf.name = originalPath
        looseMatches == SelectSeq(uploadedFiles, Matches)
        exactMatches == SelectSeq(looseMatches, Exact)
    IN  IF looseMatches = <<>> THEN [targetFile |-> NoFile, ambiguous |-> FALSE]
        ELSE IF exactMatches # <<>> THEN [targetFile |-> Head(exactMatches), ambiguous |-> FALSE]
        ELSE [targetFile |-> Head(looseMatches), ambiguous |-> Len(looseMatches) > 1]

IsContainerName(name) ==
    LET fileName == ToLowerCase(name) IN
    EndsWith(fileName, <<".zip">>) \/ EndsWith(fileName, <<".mcaddon">>)
        \/ EndsWith(fileName, <<".mcpack">>)

\* A scan that takes directories as well.
ScanContainerTryAnyEntry(uf, originalPath) ==
    IF uf.unreadable THEN Threw
    ELSE LET Hit(file) == EndsWith(file.name, originalPath)
             hits == SelectSeq(uf.entries, Hit)
         IN  IF hits = <<>> THEN NoEntry ELSE Head(hits)

\* The try block for one container: the first entry that is no directory and
\* ends with originalPath, NoEntry when there is none, Threw when the container
\* cannot be read.
ScanContainerTry(uf, originalPath) ==
    IF uf.unreadable THEN Threw
    ELSE LET Hit(file) == ~file.dir /\ EndsWith(file.name, originalPath)
             hits == SelectSeq(uf.entries, Hit)
         IN  IF hits = <<>> THEN NoEntry ELSE Head(hits)

\* One container without the catch block.
ScanContainerUncaught(uf, originalPath) ==
    LET r == ScanContainerTry(uf, originalPath) IN
    IF r = Threw THEN [threw |-> TRUE, error |-> TRUE, assetFile |-> NoEntry]
    ELSE [threw |-> FALSE, error |-> FALSE, assetFile |-> r]

\* One container with the catch block: a failure is logged with console.error.
ScanContainer(uf, originalPath) ==
    LET r == ScanContainerTry(uf, originalPath) IN
    IF r = Threw THEN [threw |-> FALSE, error |-> TRUE, assetFile |-> NoEntry]
    ELSE [threw |-> FALSE, error |-> FALSE, assetFile |-> r]

\* The fallback loop over the uploaded files: the first container that has an
\* entry for originalPath ends it.
RECURSIVE SearchContainers(_, _, _)
SearchContainers(uploadedFiles, originalPath, errors) ==
    IF uploadedFiles = <<>>
    THEN [threw |-> FALSE, found |-> FALSE, assetFile |-> NoEntry, from |-> <<>>, errors |-> errors]
    ELSE LET uf == Head(uploadedFiles) IN
         IF ~IsContainerName(uf.name)
         THEN SearchContainers(Tail(uploadedFiles), originalPath, errors)
         ELSE LET r == ScanContainer(uf, originalPath) IN
              IF r.threw
              THEN [threw |-> TRUE, found |-> FALSE, assetFile |-> NoEntry, from |-> <<>>,
                    errors |-> errors]
              ELSE IF r.error
              THEN SearchContainers(Tail(uploadedFiles), originalPath, Append(errors, uf.name))
              ELSE IF r.assetFile # NoEntry
              THEN [threw |-> FALSE, found |-> TRUE, assetFile |-> r.assetFile, from |-> uf.name,
                    errors |-> errors]
              ELSE SearchContainers(Tail(uploadedFiles), originalPath, errors)

\* The body of the loop over assetMappings for one mapping: what it did, and the
\* zip after it. via is "loose", "container" or "none"; ambiguous and notFound
\* are the two console.warn calls, errors the console.error calls.
Relocate(zip, mapping, uploadedFiles) ==
    LET originalPath == GetProp(mapping, <<"originalPath">>).chars
        newPath == GetProp(mapping, <<"newPath">>).chars
        loose == ResolveLoose(uploadedFiles, originalPath)
    IN  IF loose.targetFile # NoFile
        THEN [threw |-> FALSE,
              zip |-> ZipFile(zip, newPath, BytesContent(loose.targetFile.bytes)),
              did |-> [found |-> TRUE, via |-> "loose", from |-> loose.targetFile.name,
                       bytes |-> loose.targetFile.bytes, ambiguous |-> loose.ambiguous,
                       notFound |-> FALSE, errors |-> <<>>]]
        ELSE LET c == SearchContainers(uploadedFiles, originalPath, <<>>) IN
             [threw |-> c.threw,
              zip |-> IF c.found THEN ZipFile(zip, newPath, BytesContent(c.assetFile.bytes))
                      ELSE zip,
              did |-> [found |-> c.found, via |-> IF c.found THEN "container" ELSE "none",
                       from |-> c.from, bytes |-> c.assetFile.bytes, ambiguous |-> FALSE,
                       notFound |-> ~c.found /\ ~c.threw, errors |-> c.errors]]

\* A loop that an instruction without an asset ends.
RECURSIVE RelocateAllUntilMiss(_, _, _, _)
RelocateAllUntilMiss(zip, log, assetMappings, uploadedFiles) ==
    IF assetMappings = <<>> THEN [threw |-> FALSE, zip |-> zip, log |-> log]
    ELSE LET r == Relocate(zip, Head(assetMappings), uploadedFiles) IN
         IF r.threw THEN [threw |-> TRUE, zip |-> r.zip, log |-> Append(log, r.did)]
         ELSE IF ~r.did.found THEN [threw |-> FALSE, zip |-> r.zip, log |-> Append(log, r.did)]
         ELSE RelocateAllUntilMiss(r.zip, Append(log, r.did), Tail(assetMappings), uploadedFiles)

\* for (const mapping of assetMappings): an exception ends the loop.
RECURSIVE RelocateAll(_, _, _, _)
RelocateAll(zip, log, assetMappings, uploadedFiles) ==
    IF assetMappings = <<>> THEN [threw |-> FALSE, zip |-> zip, log |-> log]
    ELSE LET r == Relocate(zip, Head(assetMappings), uploadedFiles) IN
         IF r.threw THEN [threw |-> TRUE, zip |-> r.zip, log |-> Append(log, r.did)]
         ELSE RelocateAll(r.zip, Append(log, r.did), Tail(assetMappings), uploadedFiles)

NoDownload == <<>>

\* downloadAddon: the archive, the log of the mappings, and the name given to
\* the download link.
downloadAddon(addonName, files, uploadedFiles, assetMappings) ==
    LET r == RelocateAll(AddGeneratedFiles(NewZip, files), <<>>, assetMappings, uploadedFiles) IN
    [threw |-> r.threw, zip |-> r.zip, log |-> r.log,
     download |-> IF r.threw THEN NoDownload ELSE addonName \o <<".mcaddon">>]

\* The characters of the model's names that /[^a-zA-Z0-9_ -]/ keeps.
SafeChars == {"a", "b", "n", "A", "_", " ", "-"}

RECURSIVE StripUnsafe(_)
\* addonName.replace(/[^a-zA-Z0-9_ -]/g, '')
StripUnsafe(name) ==
    IF name = <<>> THEN <<>>
    ELSE (IF Head(name) \in SafeChars THEN <<Head(name)>> ELSE <<>>) \o StripUnsafe(Tail(name))

\* safeAddonName
SafeAddonName(addonName) ==
    LET t == Trim(StripUnsafe(addonName)) IN IF t = <<>> THEN <<"addon">> ELSE t

\* downloadMcaddonFromZips
downloadMcaddonFromZips(addonName, rpFile, bpFile) ==
    LET withRp == IF rpFile # NoFile THEN ZipFile(NewZip, rpFile.name, BytesContent(rpFile.bytes))
                  ELSE NewZip
        withBp == IF bpFile # NoFile THEN ZipFile(withRp, bpFile.name, BytesContent(bpFile.bytes))
                  ELSE withRp
    IN  [threw |-> FALSE, zip |-> withBp, log |-> <<>>,
         download |-> SafeAddonName(addonName) \o <<".mcaddon">>]

----
(* The downloads on their own: a download keeps nothing for the next one, so *)
(* a behaviour is one download                                              *)

RECURSIVE Arrangements(_, _)
\* The sequences over S without repetition of length at most n.
Arrangements(S, n) ==
    IF n = 0 THEN {<<>>}
    ELSE LET shorter == Arrangements(S, n - 1) IN
         shorter \cup {Append(x[1], x[2]) :
                        x \in {y \in shorter \X S : \A i \in 1..Len(y[1]) : y[1][i] # y[2]}}

\* Uploaded files: three assets, of which two have a name that ends with the
\* name of the third, two containers and a file named as a container that is
\* none.
UploadCatalogue ==
    { AssetFile(<<"d", "/", "s">>, 1),
      AssetFile(<<"e", "/", "s">>, 2),
      AssetFile(<<"s">>, 3),
      ContainerFile(<<"p", ".zip">>, 4,
            << ZipEntry(<<"t", "/">>, TRUE, 0), ZipEntry(<<"d", "/", "t">>, FALSE, 5),
               ZipEntry(<<"t">>, FALSE, 6), ZipEntry(<<"d", "/", "s">>, FALSE, 7) >>),
      ContainerFile(<<"q", ".MCPACK">>, 8, <<ZipEntry(<<"t">>, FALSE, 9)>>),
      BrokenContainer(<<"r", ".mcaddon">>, 10) }

UploadPools == Arrangements(UploadCatalogue, MaxPool)

\* Relocation instructions: two to one new path, one to the path of a generated
\* file, one for a directory, one for the name of a container.
MappingCatalogue ==
    { AssetMapping(<<"s">>, <<"k">>),
      AssetMapping(<<"d", "/", "s">>, <<"m">>),
      AssetMapping(<<"t">>, <<"k">>),
      AssetMapping(<<"t", "/">>, <<"h">>),
      AssetMapping(<<".zip">>, <<"j">>) }

MappingLists == Arrangements(MappingCatalogue, MaxMappings)

\* Generated files: with distinct paths, and with one path twice.
GeneratedLists ==
    { <<>>,
      <<GeneratedFile(<<"m">>, <<"x">>)>>,
      <<GeneratedFile(<<"m">>, <<"x">>), GeneratedFile(<<"n">>, <<"y">>)>>,
      <<GeneratedFile(<<"m">>, <<"x">>), GeneratedFile(<<"m">>, <<"z">>)>> }

\* Addon names as a tool hands them to downloadAddon.
AddonNames == {<<"a">>, <<"a", "/", "b">>}

\* Addon names typed by the user.
NameChars == {"a", " ", "/", "U+00E9"}
TypedNames == SeqsUpTo(NameChars, MaxNameLen)

\* The two files of the converter: absent, or one of three archives of which two
\* have the same name.
PackFiles ==
    { NoFile,
      AssetFile(<<"p", ".zip">>, 1),
      AssetFile(<<"p", ".zip">>, 2),
      AssetFile(<<"q", ".zip">>, 3) }

\* One download with downloadAddon, from any of the inputs.
DownloadAddon ==
    /\ archiveOp.phase = "none"
    /\ \E addonName \in AddonNames, files \in GeneratedLists, uploadedFiles \in UploadPools,
          assetMappings \in MappingLists :
        archiveOp' = [phase |-> "done", op |-> "downloadAddon", addonName |-> addonName,
                      files |-> files, uploadedFiles |-> uploadedFiles,
                      assetMappings |-> assetMappings, rpFile |-> NoFile, bpFile |-> NoFile,
                      result |-> downloadAddon(addonName, files, uploadedFiles, assetMappings)]
    /\ UNCHANGED <<storage, cacheOp, keyOp, gatewayOp, ui, inv, done, started, ghost>>

\* One download with downloadMcaddonFromZips, from any of the inputs.
DownloadMcaddonFromZips ==
    /\ archiveOp.phase = "none"
    /\ \E addonName \in TypedNames, rpFile \in PackFiles, bpFile \in PackFiles :
        archiveOp' = [phase |-> "done", op |-> "downloadMcaddonFromZips",
                      addonName |-> addonName,
                      files |-> <<>>, uploadedFiles |-> <<>>, assetMappings |-> <<>>,
                      rpFile |-> rpFile, bpFile |-> bpFile,
                      result |-> downloadMcaddonFromZips(addonName, rpFile, bpFile)]
    /\ UNCHANGED <<storage, cacheOp, keyOp, gatewayOp, ui, inv, done, started, ghost>>

InitDownload ==
    /\ archiveOp = ArchiveIdle
    /\ gatewayOp = GatewayOpIdle
    /\ ui = UiIdle
    /\ storage = [k \in CacheKeys |-> NoItem]
    /\ cacheOp = CacheIdle
    /\ keyOp = KeyIdle
    /\ GatewayIdle

NextDownload == DownloadAddon \/ DownloadMcaddonFromZips

SpecDownload == InitDownload /\ [][NextDownload]_vars

AddonDone == archiveOp.phase = "done" /\ archiveOp.op = "downloadAddon"
ZipsDone == archiveOp.phase = "done" /\ archiveOp.op = "downloadMcaddonFromZips"

----
(* Properties of downloadAddon, under SpecDownload *)

PathOf(file) == GetProp(file, <<"path">>).chars
ContentOf(file) == GetProp(file, <<"content">>).chars
OriginalPathOf(mapping) == GetProp(mapping, <<"originalPath">>).chars
NewPathOf(mapping) == GetProp(mapping, <<"newPath">>).chars

\* The download ran to its end and handled every relocation instruction.
AddonComplete ==
    /\ AddonDone
    /\ ~archiveOp.result.threw
    /\ Len(archiveOp.result.log) = Len(archiveOp.assetMappings)

GeneratedPaths == {PathOf(archiveOp.files[i]) : i \in 1..Len(archiveOp.files)}
DistinctGeneratedPaths ==
    \A i, j \in 1..Len(archiveOp.files) :
        i # j => PathOf(archiveOp.files[i]) # PathOf(archiveOp.files[j])

\* The relocation instructions that resolved, and the paths they wrote.
Resolved == {i \in 1..Len(archiveOp.result.log) : archiveOp.result.log[i].found}
ResolvedNewPaths == {NewPathOf(archiveOp.assetMappings[i]) : i \in Resolved}

\* What instruction i wrote is the bytes of an uploaded file, or of an entry of
\* an uploaded container, whose name ends with originalPath.
FromThePool(i) ==
    LET did == archiveOp.result.log[i]
        originalPath == OriginalPathOf(archiveOp.assetMappings[i])
        pool == archiveOp.uploadedFiles
    IN  \/ /\ did.via = "loose"
           /\ \E k \in 1..Len(pool) :
                /\ pool[k].name = did.from
                /\ pool[k].bytes = did.bytes
                /\ EndsWith(pool[k].name, originalPath)
        \/ /\ did.via = "container"
           /\ \E k \in 1..Len(pool) : \E e \in 1..Len(pool[k].entries) :
                /\ pool[k].name = did.from
                /\ pool[k].entries[e].bytes = did.bytes
                /\ EndsWith(pool[k].entries[e].name, originalPath)

\* C11 as stated: with distinct generated paths, the archive has exactly the
\* generated paths and the new paths of the relocations that resolved; every
\* generated path holds the text of its file, every such new path the bytes of
\* the source its relocation resolved to.
C11_ArchivePaths ==
    (AddonDone /\ DistinctGeneratedPaths) =>
        /\ AddonComplete
        /\ DOMAIN archiveOp.result.zip = GeneratedPaths \cup ResolvedNewPaths
        /\ \A i \in 1..Len(archiveOp.files) :
                archiveOp.result.zip[PathOf(archiveOp.files[i])]
                    = TextContent(ContentOf(archiveOp.files[i]))
        /\ \A i \in Resolved :
                /\ FromThePool(i)
                /\ archiveOp.result.zip[NewPathOf(archiveOp.assetMappings[i])]
                    = BytesContent(archiveOp.result.log[i].bytes)

\* C11 as amended: with distinct generated paths, the archive has exactly the
\* generated paths and the new paths of the relocations that resolved; a
\* generated path that no resolved relocation wrote to holds the text of its
\* file, and a new path holds the bytes of the source of the last resolved
\* relocation to it.
C11_ArchivePathsLastWrite ==
    (AddonDone /\ DistinctGeneratedPaths) =>
        /\ AddonComplete
        /\ DOMAIN archiveOp.result.zip = GeneratedPaths \cup ResolvedNewPaths
        /\ \A i \in 1..Len(archiveOp.files) :
                PathOf(archiveOp.files[i]) \notin ResolvedNewPaths =>
                    archiveOp.result.zip[PathOf(archiveOp.files[i])]
                        = TextContent(ContentOf(archiveOp.files[i]))
        /\ \A i \in Resolved :
                /\ FromThePool(i)
                /\ (\A j \in Resolved : j > i =>
                        NewPathOf(archiveOp.assetMappings[j]) # NewPathOf(archiveOp.assetMappings[i]))
                    => archiveOp.result.zip[NewPathOf(archiveOp.assetMappings[i])]
                            = BytesContent(archiveOp.result.log[i].bytes)

C11_Witness ==
    /\ AddonComplete
    /\ Len(archiveOp.files) = 2
    /\ DistinctGeneratedPaths
    /\ Len(archiveOp.uploadedFiles) = 2
    /\ Cardinality(Resolved) = 1
    /\ Len(archiveOp.assetMappings) = 2
    /\ Cardinality(DOMAIN archiveOp.result.zip) = 3

\* The writes in the order of the claim: the generated files in list order, then
\* the relocations that resolved in list order.
RECURSIVE ResolvedWrites(_)
ResolvedWrites(i) ==
    IF i > Len(archiveOp.result.log) THEN <<>>
    ELSE (IF archiveOp.result.log[i].found
          THEN <<[path |-> NewPathOf(archiveOp.assetMappings[i]),
                  content |-> BytesContent(archiveOp.result.log[i].bytes)]>>
          ELSE <<>>) \o ResolvedWrites(i + 1)

OrderedWrites ==
    [i \in 1..Len(archiveOp.files) |->
        [path |-> PathOf(archiveOp.files[i]),
         content |-> TextContent(ContentOf(archiveOp.files[i]))]]
    \o ResolvedWrites(1)

\* C13: the archive has one entry for every path written, and the entry holds
\* the content of the last write to the path in the order generated files in
\* list order, then relocations in list order.
C13_LaterWriteWins ==
    AddonDone =>
        /\ AddonComplete
        /\ DOMAIN archiveOp.result.zip = {OrderedWrites[w].path : w \in 1..Len(OrderedWrites)}
        /\ \A w \in 1..Len(OrderedWrites) :
                (\A x \in 1..Len(OrderedWrites) :
                    x > w => OrderedWrites[x].path # OrderedWrites[w].path)
                => archiveOp.result.zip[OrderedWrites[w].path] = OrderedWrites[w].content

C13_Witness ==
    /\ AddonComplete
    /\ Len(archiveOp.files) = 2
    /\ ~DistinctGeneratedPaths
    /\ Len(archiveOp.assetMappings) = 2
    /\ \E i \in Resolved :
            /\ NewPathOf(archiveOp.assetMappings[i]) \in GeneratedPaths
            /\ archiveOp.result.zip[NewPathOf(archiveOp.assetMappings[i])]
                    = BytesContent(archiveOp.result.log[i].bytes)

\* No uploaded file has a name that ends with the originalPath of instruction i.
NoLooseMatch(i) ==
    \A k \in 1..Len(archiveOp.uploadedFiles) :
        ~EndsWith(archiveOp.uploadedFiles[k].name, OriginalPathOf(archiveOp.assetMappings[i]))

\* Entry e of uploaded file k is a file whose name ends with the originalPath of
\* instruction i.
EntryMatches(i, k, e) ==
    /\ ~archiveOp.uploadedFiles[k].entries[e].dir
    /\ EndsWith(archiveOp.uploadedFiles[k].entries[e].name,
                OriginalPathOf(archiveOp.assetMappings[i]))

\* The originalPath of instruction i matches no uploaded file and no entry of
\* an uploaded container.
Unresolvable(i) ==
    /\ NoLooseMatch(i)
    /\ \A k \in 1..Len(archiveOp.uploadedFiles) :
            \A e \in 1..Len(archiveOp.uploadedFiles[k].entries) : ~EntryMatches(i, k, e)

\* Something other than instruction i wrote to its newPath.
WrittenByAnother(i) ==
    \/ NewPathOf(archiveOp.assetMappings[i]) \in GeneratedPaths
    \/ \E j \in Resolved :
            j # i /\ NewPathOf(archiveOp.assetMappings[j]) = NewPathOf(archiveOp.assetMappings[i])

\* C12: a relocation instruction whose originalPath matches nothing does not
\* make downloadAddon throw; it is logged as not found, writes no entry, the
\* instructions after it are handled, every generated path is in the archive
\* and the download is triggered.
C12_UnresolvableNonFatal ==
    AddonDone =>
        \A i \in 1..Len(archiveOp.assetMappings) :
            Unresolvable(i) =>
                /\ AddonComplete
                /\ archiveOp.result.download # NoDownload
                /\ ~archiveOp.result.log[i].found
                /\ archiveOp.result.log[i].notFound
                /\ (NewPathOf(archiveOp.assetMappings[i]) \in DOMAIN archiveOp.result.zip
                        => WrittenByAnother(i))
                /\ GeneratedPaths \subseteq DOMAIN archiveOp.result.zip
                /\ \A j \in 1..Len(archiveOp.assetMappings) :
                        (j > i /\ ~Unresolvable(j)) => archiveOp.result.log[j].found

C12_Witness ==
    /\ AddonComplete
    /\ Len(archiveOp.assetMappings) = 2
    /\ Unresolvable(1)
    /\ archiveOp.result.log[1].notFound
    /\ archiveOp.result.log[1].errors # <<>>
    /\ archiveOp.result.log[2].found
    /\ Len(archiveOp.files) = 2
    /\ Cardinality(DOMAIN archiveOp.result.zip) = 3

\* The uploaded files whose name ends with, and whose name is, the originalPath
\* of instruction i, by their place in the pool.
SuffixMatches(i) ==
    {k \in 1..Len(archiveOp.uploadedFiles) :
        EndsWith(archiveOp.uploadedFiles[k].name, OriginalPathOf(archiveOp.assetMappings[i]))}
ExactMatches(i) ==
    {k \in 1..Len(archiveOp.uploadedFiles) :
        archiveOp.uploadedFiles[k].name = OriginalPathOf(archiveOp.assetMappings[i])}

\* Instruction i resolved to uploaded file k.
ResolvedTo(i, k) ==
    /\ archiveOp.result.log[i].found
    /\ archiveOp.result.log[i].via = "loose"
    /\ archiveOp.result.log[i].from = archiveOp.uploadedFiles[k].name
    /\ archiveOp.result.log[i].bytes = archiveOp.uploadedFiles[k].bytes

\* No later resolved instruction wrote to the newPath of instruction i.
LastTo(i) ==
    \A j \in Resolved :
        j > i => NewPathOf(archiveOp.assetMappings[j]) # NewPathOf(archiveOp.assetMappings[i])

\* The newPath of instruction i holds the bytes instruction i resolved to.
WrittenAtNewPath(i) ==
    /\ NewPathOf(archiveOp.assetMappings[i]) \in DOMAIN archiveOp.result.zip
    /\ LastTo(i) => archiveOp.result.zip[NewPathOf(archiveOp.assetMappings[i])]
                        = BytesContent(archiveOp.result.log[i].bytes)

\* C14: when no uploaded file is named originalPath and some uploaded file's
\* name ends with originalPath, the relocation resolves to the bytes of such a
\* file, which are written at newPath.
C14_SuffixFallback ==
    AddonDone =>
        \A i \in 1..Len(archiveOp.assetMappings) :
            (ExactMatches(i) = {} /\ SuffixMatches(i) # {}) =>
                /\ AddonComplete
                /\ \E k \in SuffixMatches(i) : ResolvedTo(i, k)
                /\ WrittenAtNewPath(i)

C14_Witness ==
    /\ AddonComplete
    /\ archiveOp.uploadedFiles = <<AssetFile(<<"d", "/", "s">>, 1)>>
    /\ archiveOp.assetMappings = <<AssetMapping(<<"s">>, <<"k">>)>>
    /\ archiveOp.result.zip[<<"k">>] = BytesContent(1)

\* C15: when some uploaded file is named originalPath, the relocation resolves
\* to a file of that name, whatever other files end with originalPath and
\* wherever they are in the pool.
C15_ExactPreferred ==
    AddonDone =>
        \A i \in 1..Len(archiveOp.assetMappings) :
            ExactMatches(i) # {} =>
                /\ AddonComplete
                /\ \E k \in ExactMatches(i) : ResolvedTo(i, k)
                /\ ~archiveOp.result.log[i].ambiguous
                /\ WrittenAtNewPath(i)

C15_Witness ==
    /\ AddonComplete
    /\ Len(archiveOp.assetMappings) = 1
    /\ ExactMatches(1) = {2}
    /\ SuffixMatches(1) = {1, 2}
    /\ ResolvedTo(1, 2)

\* The least element of a set of places that is not empty.
First(S) == CHOOSE k \in S : \A j \in S : k <= j

\* C16: when several uploaded files end with originalPath and none is named
\* originalPath, the relocation resolves to the first of them in pool order
\* with a warning, downloadAddon does not throw, and the asset is written.
C16_AmbiguousSuffix ==
    AddonDone =>
        \A i \in 1..Len(archiveOp.assetMappings) :
            (ExactMatches(i) = {} /\ Cardinality(SuffixMatches(i)) > 1) =>
                /\ AddonComplete
                /\ archiveOp.result.download # NoDownload
                /\ ResolvedTo(i, First(SuffixMatches(i)))
                /\ archiveOp.result.log[i].ambiguous
                /\ WrittenAtNewPath(i)

C16_Witness ==
    /\ AddonComplete
    /\ Len(archiveOp.assetMappings) = 1
    /\ ExactMatches(1) = {}
    /\ SuffixMatches(1) = {1, 2}
    /\ ResolvedTo(1, 1)
    /\ archiveOp.result.log[1].ambiguous

\* The uploaded containers that can be read and hold a file whose name ends
\* with the originalPath of instruction i, by their place in the pool.
Holders(i) ==
    {k \in 1..Len(archiveOp.uploadedFiles) :
        /\ IsContainerName(archiveOp.uploadedFiles[k].name)
        /\ ~archiveOp.uploadedFiles[k].unreadable
        /\ \E e \in 1..Len(archiveOp.uploadedFiles[k].entries) : EntryMatches(i, k, e)}

\* Instruction i resolved to the first matching entry of container k.
ResolvedToEntryOf(i, k) ==
    LET entries == archiveOp.uploadedFiles[k].entries
        e == First({x \in 1..Len(entries) : EntryMatches(i, k, x)})
    IN  /\ archiveOp.result.log[i].found
        /\ archiveOp.result.log[i].via = "container"
        /\ archiveOp.result.log[i].from = archiveOp.uploadedFiles[k].name
        /\ archiveOp.result.log[i].bytes = entries[e].bytes

\* C17: the containers are searched only when no uploaded file's name ends
\* with originalPath; then the first container in pool order that holds a file
\* entry whose name ends with originalPath gives, with the first such entry,
\* the bytes written at newPath; a match among the uploaded files themselves
\* always comes first.
C17_ContainerFallback ==
    AddonDone =>
        \A i \in 1..Len(archiveOp.assetMappings) :
            /\ AddonComplete
            /\ SuffixMatches(i) # {} => archiveOp.result.log[i].via = "loose"
            /\ archiveOp.result.log[i].via = "container" => SuffixMatches(i) = {}
            /\ (SuffixMatches(i) = {} /\ Holders(i) # {}) =>
                    /\ ResolvedToEntryOf(i, First(Holders(i)))
                    /\ WrittenAtNewPath(i)
            /\ (SuffixMatches(i) = {} /\ Holders(i) = {}) => ~archiveOp.result.log[i].found

C17_Witness ==
    /\ AddonComplete
    /\ Len(archiveOp.uploadedFiles) = 2
    /\ archiveOp.uploadedFiles[1].unreadable
    /\ archiveOp.assetMappings = <<AssetMapping(<<"t">>, <<"k">>)>>
    /\ Holders(1) = {2}
    /\ ResolvedToEntryOf(1, 2)
    /\ archiveOp.result.zip[<<"k">>] = BytesContent(5)

----
(* Properties of downloadMcaddonFromZips and of the download name, under SpecDownload *)

PresentPacks == {f \in {archiveOp.rpFile, archiveOp.bpFile} : f # NoFile}

\* C18: every container given to downloadMcaddonFromZips is an entry of the
\* archive under its own file name with its own bytes, and the archive has no
\* other entry.
C18_RawContainers ==
    ZipsDone =>
        /\ ~archiveOp.result.threw
        /\ DOMAIN archiveOp.result.zip = {f.name : f \in PresentPacks}
        /\ \A f \in PresentPacks : archiveOp.result.zip[f.name] = BytesContent(f.bytes)

\* C19: the name of every download, before its extension, has no character
\* outside letters, digits, underscore, space and hyphen, and is not empty.
C19_SanitizedName ==
    (archiveOp.phase = "done" /\ archiveOp.result.download # NoDownload) =>
        LET name == archiveOp.result.download
            stem == SubSeq(name, 1, Len(name) - 1)
        IN  /\ name[Len(name)] = ".mcaddon"
            /\ stem # <<>>
            /\ \A c \in 1..Len(stem) : stem[c] \in SafeChars \cup {"addon"}

----
(* Properties of generateAddonFiles on a response that cannot be parsed, under Spec *)

\* The answers of the collaborator whose text parseJsonResponse cannot parse.
UnparseableOutcomes ==
    {resp \in CollaboratorOutcomes : resp.kind = "text" /\ parseJsonResponse(resp.text) = Threw}

\* C20: when the text the collaborator returned in either pass cannot be
\* parsed, the invocation ends there with the error of parseJsonResponse:
\* nothing is returned, no later pass is issued and nothing is written to the
\* cache.
C20_UnparseableIsError ==
    [][ \A i \in Slots : \A resp \in UnparseableOutcomes :
            ( /\ inv[i].pc # "idle"
              /\ inv'[i] # inv[i]
              /\ (FirstResponse(i, resp) \/ SecondResponse(i, resp)) )
            => /\ done'.outcome = "error"
               /\ done'.error = UnparseableError
               /\ done'.value = Undefined
               /\ done'.cacheWrite = "none"
               /\ inv'[i].pc = "idle"
               /\ storage' = storage
               /\ ghost' = ghost
      ]_vars

C20_Witness ==
    /\ done.outcome = "error"
    /\ done.error = UnparseableError
    /\ done.calls = 2
    /\ HasFileList(done.initialResult)

----
(* The fields carried over from the first pass, under Spec *)

\* C21: the final result of a successful invocation of two passes has the files
\* of the verification pass, and the assetMappings and the summaryReport of the
\* first pass, whatever the verification pass returned in those two fields; the
\* value then stored in the cache reads back with the same three fields.
C21_CarryOver ==
    done.outcome = "ok" =>
        /\ done.calls = 2
        /\ GetProp(done.value, <<"files">>) = GetProp(done.secondResult, <<"files">>)
        /\ GetProp(done.value, <<"assetMappings">>)
                = GetProp(done.initialResult, <<"assetMappings">>)
        /\ GetProp(done.value, <<"summaryReport">>)
                = GetProp(done.initialResult, <<"summaryReport">>)
        /\ done.cacheWrite = "stored" =>
                LET cached == JSONparse(storage[done.cacheKey].text) IN
                /\ storage[done.cacheKey].present
                /\ GetProp(cached, <<"files">>) = GetProp(done.secondResult, <<"files">>)
                /\ GetProp(cached, <<"assetMappings">>)
                        = GetProp(done.initialResult, <<"assetMappings">>)
                /\ GetProp(cached, <<"summaryReport">>)
                        = GetProp(done.initialResult, <<"summaryReport">>)

\* A stored success whose verification pass returned relocation instructions and
\* a report of its own, other than those of the first pass.
C21_Witness ==
    /\ done.outcome = "ok"
    /\ done.cacheWrite = "stored"
    /\ GetProp(done.secondResult, <<"assetMappings">>) # Undefined
    /\ GetProp(done.secondResult, <<"assetMappings">>)
            # GetProp(done.initialResult, <<"assetMappings">>)
    /\ GetProp(done.secondResult, <<"summaryReport">>)
            # GetProp(done.initialResult, <<"summaryReport">>)

----
(* The fingerprint of the inputs: two requests that differ in file contents *)

\* Uploaded files: text files and an image, each name with two contents.
FingerprintCatalogue ==
    { File(<<"a", ".json">>, <<"application/json">>, <<"a">>),
      File(<<"a", ".json">>, <<"application/json">>, <<"b">>),
      File(<<"b", ".JSON">>, <<>>, <<"a">>),
      File(<<"b", ".JSON">>, <<>>, <<"n">>),
      File(<<"a", ".png">>, <<"image/png">>, <<"a">>),
      File(<<"a", ".png">>, <<"image/png">>, <<"b">>) }

FingerprintFileLists == SeqsUpTo(FingerprintCatalogue, MaxFiles)

SameNames(fs, gs) == Len(fs) = Len(gs) /\ \A i \in 1..Len(fs) : fs[i].name = gs[i].name

\* Pairs of requests with one instruction, one prompt, one mode and files of the
\* same names.
FingerprintPairs ==
    { << Request(<<"a">>, <<"b">>, fs, smart), Request(<<"a">>, <<"b">>, gs, smart) >> :
        <<fs, gs, smart>> \in
            {t \in FingerprintFileLists \X FingerprintFileLists \X BOOLEAN : SameNames(t[1], t[2])} }

FingerprintKeys == {RequestKey(pair[1]) : pair \in FingerprintPairs}

InitFingerprint ==
    /\ \E pair \in FingerprintPairs :
            keyOp = [phase |-> "start", first |-> pair[1], second |-> pair[2],
                     firstKey |-> NoKey, secondKey |-> NoKey, cachedData |-> Undefined]
    /\ storage = [k \in FingerprintKeys |-> NoItem]
    /\ cacheOp = CacheIdle
    /\ archiveOp = ArchiveIdle
    /\ gatewayOp = GatewayOpIdle
    /\ ui = UiIdle
    /\ GatewayIdle

\* generateAddonFiles on the first request, from its parts to its return: the
\* key is derived, the lookup misses, both passes succeed and the final result
\* is stored under the key.
GenerateFirst ==
    /\ keyOp.phase = "start"
    /\ LET cacheKey == RequestKey(keyOp.first)
           cachedData == getFromCache(storage, cacheKey, FALSE)
       IN  /\ ~Truthy(cachedData)
           /\ storage' = setInCache(storage, cacheKey, ResultFull, "none").store
           /\ keyOp' = [keyOp EXCEPT !.phase = "stored", !.firstKey = cacheKey]
    /\ UNCHANGED <<cacheOp, archiveOp, gatewayOp, ui, inv, done, started, ghost>>

\* generateAddonFiles on the second request up to its cache lookup.
LookupSecond ==
    /\ keyOp.phase = "stored"
    /\ LET cacheKey == RequestKey(keyOp.second)
           cachedData == getFromCache(storage, cacheKey, FALSE)
       IN  keyOp' = [keyOp EXCEPT !.phase = "looked up", !.secondKey = cacheKey,
                                  !.cachedData = cachedData]
    /\ UNCHANGED <<storage, cacheOp, archiveOp, gatewayOp, ui, inv, done, started, ghost>>

NextFingerprint == GenerateFirst \/ LookupSecond

SpecFingerprint == InitFingerprint /\ [][NextFingerprint]_vars

\* Some text file of the first request has another content in the second.
TextContentDiffers(fs, gs) ==
    \E i \in 1..Len(fs) : IsTextFile(fs[i]) /\ fs[i].content # gs[i].content

\* C22: two requests with the same instruction and prompt whose files have the
\* same names, and of which a text file differs in content, derive different
\* keys in both modes, and the second is not answered from the entry that the
\* first one stored.
C22_FingerprintCoversText ==
    ( /\ keyOp.phase = "looked up"
      /\ TextContentDiffers(keyOp.first.uploadedFiles, keyOp.second.uploadedFiles) )
    => /\ keyOp.firstKey # keyOp.secondKey
       /\ ~Truthy(keyOp.cachedData)

----
(* The other gateway operations (src/services/geminiService.ts):           *)
(* initiateAddonGeneration, devAddon, generateFunction, summarizeAddon and *)
(* generateBuildingImage, one call at a time                               *)

\* a || b
OrElse(a, b) == IF Truthy(a) THEN a ELSE b

ResultPlan == Obj(<<Prop(<<"plan">>, Obj(<<Prop(<<"addonName">>, Str(<<"a">>))>>))>>)
ResultPlanAndFiles ==
    Obj(<< Prop(<<"plan">>, Obj(<<Prop(<<"addonName">>, Str(<<"a">>))>>)),
           Prop(<<"files">>, Arr(<<FileTwo>>)) >>)

\* What the first call of initiateAddonGeneration can come back with: its schema
\* allows a plan, files, or both.
UnifiedOutcomes ==
    CollaboratorOutcomes
    \cup {Response(JSONstringify(ResultPlan)), Response(JSONstringify(ResultPlanAndFiles))}

\* generateContent followed by parseJsonResponse, as initiateAddonGeneration and
\* devAddon write it inline: the two steps of performSingleGeneration.
UnifiedGeneration == [resp \in UnifiedOutcomes |-> performSingleGeneration(resp)]

\* response.text of a call that asks for plain text: a summary, an empty text,
\* or no text at all; or the call fails.
NoText == [kind |-> "notext", text |-> <<>>]
TextOutcomes == {Response(<<"n", LF>>), Response(<<>>), NoText, TransportFailure}

\* response.generatedImages of generateImages: the bytes of one image, empty
\* bytes, no image; or the call fails.
Images(xs) == [kind |-> "images", items |-> xs]
ImageOutcomes == {Images(<<<<"a">>>>), Images(<<<<>>>>), Images(<<>>), TransportFailure}

UnexpectedResponseError ==
    "The AI returned an unexpected response. It did not contain a plan or any files. Please try rephrasing your request."
NoFunctionError ==
    "The AI did not generate a function file. Your request might be too vague or unsupported. Please provide more specific details and try again."
ImageFailedError ==
    "Image generation failed. This could be due to the prompt conflicting with safety policies or a temporary service issue. Please try rephrasing your prompt."

\* The arguments of the operations: a prompt; an instruction with the files of
\* an addon; a prompt for a function; uploaded files by their bytes; a prompt.
InitiateRequests == {<<"a">>, <<"b">>}
DevRequests ==
    { [instruction |-> <<"a">>, existingFiles |-> <<>>],
      [instruction |-> <<"a">>, existingFiles |-> <<[path |-> <<"a">>, content |-> <<"n">>]>>] }
FunctionRequests == {<<"a">>}
SummarizeRequests == {<<>>, <<Buf(<<97>>)>>}
ImageRequests == {<<"a">>, <<"b">>}

\* existingFiles.map(...).join(';')
FileContents(existingFiles) ==
    JoinWith([i \in 1..Len(existingFiles) |->
                <<"path:">> \o existingFiles[i].path \o <<",content:">> \o existingFiles[i].content],
             <<";">>)

DevKey(rq) ==
    generateCacheKey(<< Str(<<"<devAddon instruction>">>), Str(rq.instruction),
                        Str(FileContents(rq.existingFiles)) >>)
SummarizeKey(fileBuffers) ==
    generateCacheKey(<<Str(<<"<summarizeAddon instruction>">>), Str(<<"summarize">>)>> \o fileBuffers)
ImageKey(prompt) ==
    generateCacheKey(<< Str(<<"generateBuildingImage">>),
                        Str(<<"A digital art depiction of a Minecraft build of '">> \o prompt \o <<"'...">>) >>)

DevKeys == [rq \in DevRequests |-> DevKey(rq)]
SummarizeKeys == [rq \in SummarizeRequests |-> SummarizeKey(rq)]
ImageKeys == [rq \in ImageRequests |-> ImageKey(rq)]

OperationKeys ==
    {DevKeys[rq] : rq \in DevRequests} \cup {SummarizeKeys[rq] : rq \in SummarizeRequests}
    \cup {ImageKeys[rq] : rq \in ImageRequests}

\* A call from its start: op and req are the operation and its arguments, repeat
\* tells whether the same call has succeeded before, cachedData is what the
\* lookup returned, calls counts the calls to the collaborator.
OpCall(op, req) ==
    [pc |-> "first", op |-> op, req |-> req, repeat |-> <<op, req>> \in ghost.succeeded,
     cacheKey |-> <<>>, lookedUp |-> FALSE, cachedData |-> Undefined, calls |-> 1,
     initialResult |-> Undefined, secondResult |-> Undefined,
     outcome |-> "none", value |-> Undefined, error |-> "", cacheWrite |-> "none"]

OpLookup(call, cacheKey, cachedData) ==
    [call EXCEPT !.cacheKey = cacheKey, !.lookedUp = TRUE, !.cachedData = cachedData]

OpHit(call, value) == [call EXCEPT !.pc = "returned", !.calls = 0, !.outcome = "hit", !.value = value]
OpReturn(call, value) == [call EXCEPT !.pc = "returned", !.outcome = "ok", !.value = value]
OpThrow(call, e) == [call EXCEPT !.pc = "returned", !.outcome = "error", !.error = e]

OpFree == gatewayOp.pc \in {"none", "returned"} /\ started < MaxInvocations

\* The caller has its value: the call is remembered as one that succeeded.
Remember(call) ==
    ghost' = IF call.outcome \in {"hit", "ok"}
             THEN [succeeded |-> ghost.succeeded \cup {<<call.op, call.req>>}]
             ELSE ghost

\* The call goes on as c, or has returned as c.
Settle(c) == gatewayOp' = c /\ Remember(c)

WithInitial(call, result) == [call EXCEPT !.initialResult = result]
WithSecond(call, result) == [call EXCEPT !.secondResult = result]
WithWrite(call, fails) ==
    [call EXCEPT !.cacheWrite = IF fails = "none" THEN "stored" ELSE "failed"]

\* if (cachedData) return cachedData
HitOrMiss(call) == IF Truthy(call.cachedData) THEN OpHit(call, call.cachedData) ELSE call

\* if (cachedData) return { files: cachedData.files, assetMappings: [] }
DevHitOrMiss(call) ==
    IF Truthy(call.cachedData)
    THEN OpHit(call, Obj(<< Prop(<<"files">>, GetProp(call.cachedData, <<"files">>)),
                            Prop(<<"assetMappings">>, Arr(<<>>)) >>))
    ELSE call

\* initiateAddonGeneration up to its first await of the collaborator.
InitiateStart ==
    /\ OpFree
    /\ \E prompt \in InitiateRequests :
            gatewayOp' = OpCall("initiateAddonGeneration", prompt)
    /\ started' = started + 1
    /\ UNCHANGED <<storage, cacheOp, keyOp, archiveOp, ui, inv, done, ghost>>

\* generateFunction up to its await of performSingleGeneration.
FunctionStart ==
    /\ OpFree
    /\ \E prompt \in FunctionRequests : gatewayOp' = OpCall("generateFunction", prompt)
    /\ started' = started + 1
    /\ UNCHANGED <<storage, cacheOp, keyOp, archiveOp, ui, inv, done, ghost>>

\* devAddon up to its await of the collaborator: the key, the lookup; a hit
\* returns the files of the cached value.
DevStart ==
    /\ OpFree
    /\ \E rq \in DevRequests :
        Settle(DevHitOrMiss(OpLookup(OpCall("devAddon", rq), DevKeys[rq],
                                     getFromCache(storage, DevKeys[rq], FALSE))))
    /\ started' = started + 1
    /\ UNCHANGED <<storage, cacheOp, keyOp, archiveOp, ui, inv, done>>

\* summarizeAddon up to its await of the collaborator; the uploaded files are
\* loose files, which processAndUnzipFiles passes on as they are.
SummarizeStart ==
    /\ OpFree
    /\ \E fileBuffers \in SummarizeRequests :
        Settle(HitOrMiss(OpLookup(OpCall("summarizeAddon", fileBuffers), SummarizeKeys[fileBuffers],
                                  getFromCache(storage, SummarizeKeys[fileBuffers], FALSE))))
    /\ started' = started + 1
    /\ UNCHANGED <<storage, cacheOp, keyOp, archiveOp, ui, inv, done>>

\* generateBuildingImage up to its await of generateImages.
ImageStart ==
    /\ OpFree
    /\ \E prompt \in ImageRequests :
        Settle(HitOrMiss(OpLookup(OpCall("generateBuildingImage", prompt), ImageKeys[prompt],
                                  getFromCache(storage, ImageKeys[prompt], FALSE))))
    /\ started' = started + 1
    /\ UNCHANGED <<storage, cacheOp, keyOp, archiveOp, ui, inv, done>>

\* What initiateAddonGeneration does with its first generation g: a plan is
\* returned at once, files lead to the verification call, anything else is an
\* error.
InitiateFirstResult(call, g) ==
    IF g.threw THEN OpThrow(call, g.error)
    ELSE IF Truthy(GetProp(g.value, <<"plan">>))
    THEN OpReturn(WithInitial(call, g.value),
                  Obj(<<Prop(<<"plan">>, GetProp(g.value, <<"plan">>))>>))
    ELSE IF ~NoFiles(g.value)
    THEN [WithInitial(call, g.value) EXCEPT !.pc = "second", !.calls = 2]
    ELSE OpThrow(WithInitial(call, g.value), UnexpectedResponseError)

\* The first call of initiateAddonGeneration comes back.
InitiateFirst ==
    /\ gatewayOp.pc = "first"
    /\ gatewayOp.op = "initiateAddonGeneration"
    /\ \E resp \in UnifiedOutcomes : Settle(InitiateFirstResult(gatewayOp, UnifiedGeneration[resp]))
    /\ UNCHANGED <<storage, cacheOp, keyOp, archiveOp, ui, inv, done, started>>

\* What initiateAddonGeneration does with its verification g, of which
\* finalResult is the result with the fields of the first pass.
InitiateSecondResult(call, g, finalResult) ==
    IF g.threw THEN OpThrow(call, g.error)
    ELSE IF NoFiles(finalResult) THEN OpThrow(WithSecond(call, g.value), VerificationEmptyError)
    ELSE OpReturn(WithSecond(call, g.value),
            Obj(<< Prop(<<"files">>, GetProp(finalResult, <<"files">>)),
                   Prop(<<"assetMappings">>,
                        OrElse(GetProp(finalResult, <<"assetMappings">>), Arr(<<>>))),
                   Prop(<<"summaryReport">>,
                        OrElse(GetProp(finalResult, <<"summaryReport">>), Str(<<>>))) >>))

\* The verification call of initiateAddonGeneration comes back.
InitiateSecond ==
    /\ gatewayOp.pc = "second"
    /\ \E resp \in CollaboratorOutcomes :
        Settle(InitiateSecondResult(gatewayOp, Generation[resp],
                                    CarryOver(Generation[resp].value, gatewayOp.initialResult)))
    /\ UNCHANGED <<storage, cacheOp, keyOp, archiveOp, ui, inv, done, started>>

\* What generateFunction does with its generation g.
FunctionResult(call, g) ==
    IF g.threw THEN OpThrow(call, g.error)
    ELSE IF NoFiles(g.value) THEN OpThrow(WithInitial(call, g.value), NoFunctionError)
    ELSE OpReturn(WithInitial(call, g.value), GetProp(g.value, <<"files">>))

\* The call of generateFunction comes back.
FunctionResponse ==
    /\ gatewayOp.pc = "first"
    /\ gatewayOp.op = "generateFunction"
    /\ \E resp \in CollaboratorOutcomes : Settle(FunctionResult(gatewayOp, Generation[resp]))
    /\ UNCHANGED <<storage, cacheOp, keyOp, archiveOp, ui, inv, done, started>>

\* What devAddon does with its generation g: no test of the files.
DevResult(call, g, fails) ==
    IF g.threw THEN OpThrow(call, g.error)
    ELSE OpReturn(WithWrite(WithInitial(call, g.value), fails),
                  Obj(<< Prop(<<"files">>, GetProp(g.value, <<"files">>)),
                         Prop(<<"assetMappings">>, Arr(<<>>)) >>))

\* The call of devAddon comes back: the parsed result is stored and its files
\* are returned.
DevResponse ==
    /\ gatewayOp.pc = "first"
    /\ gatewayOp.op = "devAddon"
    /\ \E resp \in CollaboratorOutcomes, fails \in {"none", "quota"} :
        /\ Settle(DevResult(gatewayOp, Generation[resp], fails))
        /\ storage' = IF Generation[resp].threw THEN storage
                      ELSE setInCache(storage, gatewayOp.cacheKey, Generation[resp].value,
                                      fails).store
    /\ UNCHANGED <<cacheOp, keyOp, archiveOp, ui, inv, done, started>>

\* response.text
TextOf(resp) == IF resp.kind = "text" THEN Str(resp.text) ELSE Undefined

SummarizeResult(call, resp, fails) ==
    IF resp.kind = "transport" THEN OpThrow(call, TransportError)
    ELSE OpReturn(WithWrite(WithInitial(call, TextOf(resp)), fails), TextOf(resp))

\* The call of summarizeAddon comes back: response.text is stored and returned.
SummarizeResponse ==
    /\ gatewayOp.pc = "first"
    /\ gatewayOp.op = "summarizeAddon"
    /\ \E resp \in TextOutcomes, fails \in {"none", "quota"} :
        /\ Settle(SummarizeResult(gatewayOp, resp, fails))
        /\ storage' = IF resp.kind = "transport" THEN storage
                      ELSE setInCache(storage, gatewayOp.cacheKey, TextOf(resp), fails).store
    /\ UNCHANGED <<cacheOp, keyOp, archiveOp, ui, inv, done, started>>

\* The call rejected, or response.generatedImages is empty.
ImageFailed(resp) == resp.kind = "transport" \/ resp.items = <<>>

ImageResult(call, resp, fails) ==
    IF ImageFailed(resp) THEN OpThrow(call, ImageFailedError)
    ELSE OpReturn(WithWrite(WithInitial(call, Str(resp.items[1])), fails), Str(resp.items[1]))

\* The call of generateBuildingImage comes back: the bytes of the first image
\* are stored and returned; every failure becomes one error.
ImageResponse ==
    /\ gatewayOp.pc = "first"
    /\ gatewayOp.op = "generateBuildingImage"
    /\ \E resp \in ImageOutcomes, fails \in {"none", "quota"} :
        /\ Settle(ImageResult(gatewayOp, resp, fails))
        /\ storage' = IF ImageFailed(resp) THEN storage
                      ELSE setInCache(storage, gatewayOp.cacheKey, Str(resp.items[1]), fails).store
    /\ UNCHANGED <<cacheOp, keyOp, archiveOp, ui, inv, done, started>>

InitOperations ==
    /\ storage = [k \in OperationKeys |-> NoItem]
    /\ gatewayOp = GatewayOpIdle
    /\ ghost = [succeeded |-> {}]
    /\ started = 0
    /\ inv = [i \in Slots |-> IdleInv]
    /\ done = NoneDone
    /\ cacheOp = CacheIdle
    /\ keyOp = KeyIdle
    /\ archiveOp = ArchiveIdle
    /\ ui = UiIdle

NextOperations ==
    \/ InitiateStart \/ InitiateFirst \/ InitiateSecond
    \/ FunctionStart \/ FunctionResponse
    \/ DevStart \/ DevResponse
    \/ SummarizeStart \/ SummarizeResponse
    \/ ImageStart \/ ImageResponse

SpecOperations == InitOperations /\ [][NextOperations]_vars

----
(* Properties of the other gateway operations, under SpecOperations *)

OpReturned(op) == gatewayOp.pc = "returned" /\ gatewayOp.op = op

\* The parsed result of a call to the collaborator carries nothing to return:
\* no files and no plan.
Carries(result) == HasFileList(result) \/ Truthy(GetProp(result, <<"plan">>))

\* C23: in initiateAddonGeneration, devAddon and generateFunction a parsed
\* result without files (and, for initiateAddonGeneration, without a plan) ends
\* the call with an error: such a result is not returned as a success and is
\* not stored in the cache.
C23_EmptyResultIsError ==
    \A op \in {"initiateAddonGeneration", "devAddon", "generateFunction"} :
        OpReturned(op) =>
            /\ (gatewayOp.initialResult # Undefined /\ ~Carries(gatewayOp.initialResult)) =>
                    /\ gatewayOp.outcome = "error"
                    /\ gatewayOp.value = Undefined
                    /\ gatewayOp.cacheWrite = "none"
            /\ (gatewayOp.secondResult # Undefined /\ ~HasFileList(gatewayOp.secondResult)) =>
                    /\ gatewayOp.outcome = "error"
                    /\ gatewayOp.value = Undefined
            /\ \A rq \in DevRequests :
                    storage[DevKeys[rq]].present =>
                        HasFileList(JSONparse(storage[DevKeys[rq]].text))

\* C24: initiateAddonGeneration looks the cache up before it issues a call, and
\* a call that repeats one that has succeeded is answered without any call to
\* the collaborator.
C24_TwoPassEntryPointsCached ==
    (gatewayOp.pc # "none" /\ gatewayOp.op = "initiateAddonGeneration") =>
        /\ gatewayOp.lookedUp
        /\ (gatewayOp.pc = "returned" /\ gatewayOp.repeat) =>
                gatewayOp.outcome = "hit" /\ gatewayOp.calls = 0

\* C27: initiateAddonGeneration does not return before it has issued the
\* verification call when its first result parsed with at least one file, with
\* or without a plan.
C27_VerificationUnconditional ==
    ( /\ OpReturned("initiateAddonGeneration")
      /\ gatewayOp.initialResult # Undefined
      /\ HasFileList(gatewayOp.initialResult) )
    => gatewayOp.calls = 2

\* C30: in summarizeAddon and generateBuildingImage a lookup that returns a
\* stored value, the empty string included, ends the call at once with that
\* value and without a call to the collaborator.
C30_HitReturnsStoredValue ==
    \A op \in {"summarizeAddon", "generateBuildingImage"} :
        ( /\ gatewayOp.pc # "none"
          /\ gatewayOp.op = op
          /\ storage[gatewayOp.cacheKey].present
          /\ gatewayOp.cachedData # Null )
        => /\ gatewayOp.pc = "returned"
           /\ gatewayOp.outcome = "hit"
           /\ gatewayOp.calls = 0
           /\ gatewayOp.value = gatewayOp.cachedData

----
(* Two invocations on one key, under Spec *)

\* What parseJsonResponse makes of every answer of the collaborator.
ParsedOutcome == [resp \in CollaboratorOutcomes |-> parseJsonResponse(resp.text)]

\* The answers that parse to a result with at least one file.
FileOutcomes ==
    {resp \in CollaboratorOutcomes :
        resp.kind = "text" /\ ParsedOutcome[resp] # Threw /\ HasFileList(ParsedOutcome[resp])}

\* Invocation i missed at its lookup and is not alone on its key: another
\* invocation on the key is in flight, or has stored its result since.
Raced(i) ==
    /\ InFlight(i)
    /\ ~inv[i].present
    /\ \/ storage[inv[i].cacheKey].present
       \/ \E j \in Slots \ {i} : InFlight(j) /\ inv[j].cacheKey = inv[i].cacheKey

\* The reasons generateAddonFiles gives for a failure of one of its own passes.
OwnFailures == {TransportError, UnparseableError, InitialEmptyError, VerificationEmptyError}

\* C25: of two invocations in flight on one key neither blocks or fails because
\* of the other: a raced invocation can always take its next response, its step
\* leaves the other invocation as it is, it fails only on a response of its own
\* that failed, did not parse or had no files, and it returns the files of its
\* own verification pass with the fields of its own first pass; its write
\* replaces the entry of the key by its own final result, so that the entry is
\* always the final result that was stored last.
C25_RaceLastWriterWins ==
    /\ [](\A i \in Slots :
            Raced(i) => ENABLED (\E resp \in CollaboratorOutcomes :
                                    FirstResponse(i, resp) \/ SecondResponse(i, resp)))
    /\ [](\A k \in CacheKeys :
            ghost.written[k] # Undefined => storage[k] = StoredItem(ghost.written[k]))
    /\ [][ \A i \in Slots :
            (inv'[i] # inv[i] /\ Raced(i))
            => /\ \A j \in Slots \ {i} : inv'[j] = inv[j]
               /\ inv'[i].pc \in {"verifying", "idle"}
               /\ inv'[i].pc = "verifying" =>
                        /\ inv[i].pc = "generating"
                        /\ HasFileList(inv'[i].initialResult)
                        /\ done' = done
                        /\ storage' = storage
               /\ inv'[i].pc = "idle" =>
                        /\ done'.req = inv[i].req
                        /\ done'.calls = inv[i].calls
                        /\ done'.outcome \in {"ok", "error"}
                        /\ done'.outcome = "error" =>
                                /\ done'.error \in OwnFailures
                                /\ done'.error = InitialEmptyError =>
                                        /\ inv[i].pc = "generating"
                                        /\ ~HasFileList(done'.initialResult)
                                /\ done'.error = VerificationEmptyError =>
                                        /\ inv[i].pc = "verifying"
                                        /\ ~HasFileList(done'.secondResult)
                                /\ storage' = storage
                        /\ done'.outcome = "ok" =>
                                /\ inv[i].pc = "verifying"
                                /\ GetProp(done'.value, <<"files">>)
                                        = GetProp(done'.secondResult, <<"files">>)
                                /\ GetProp(done'.value, <<"assetMappings">>)
                                        = GetProp(inv[i].initialResult, <<"assetMappings">>)
                                /\ GetProp(done'.value, <<"summaryReport">>)
                                        = GetProp(inv[i].initialResult, <<"summaryReport">>)
                                /\ done'.cacheWrite \in {"stored", "failed"}
                                /\ done'.cacheWrite = "failed" => storage' = storage
                                /\ done'.cacheWrite = "stored" =>
                                        storage' = [storage EXCEPT ![inv[i].cacheKey] =
                                                        StoredItem(done'.value)]
      ]_vars

\* Two invocations of one request that both missed have both stored: the one
\* that returned last found nothing at its lookup, and its final result, which
\* is not the other one's, is the entry of the key.
C25_Witness ==
    /\ done.outcome = "ok"
    /\ done.cacheWrite = "stored"
    /\ ~done.present
    /\ done.prior = {}
    /\ Cardinality(ghost.finals[done.req]) >= 2
    /\ storage[done.cacheKey] = StoredItem(done.value)

----
(* The cache writes of generateAddonFiles, under Spec *)

\* C28: the cache changes only in the step in which an invocation returns the
\* verified result of two successful passes, which has at least one file, and
\* then only by the entry of that invocation's key; every step of an invocation
\* that ends in an error, and every step before the return, leaves all entries
\* as they were.
C28_FailedInvocationsLeaveCache ==
    [][ /\ storage' # storage =>
                \E i \in Slots :
                    /\ inv[i].pc = "verifying"
                    /\ inv'[i].pc = "idle"
                    /\ done'.outcome = "ok"
                    /\ done'.req = inv[i].req
                    /\ done'.calls = 2
                    /\ HasFileList(done'.initialResult)
                    /\ HasFileList(done'.secondResult)
                    /\ HasFileList(done'.value)
                    /\ done'.cacheWrite = "stored"
                    /\ storage' = [storage EXCEPT ![inv[i].cacheKey] = StoredItem(done'.value)]
        /\ \A i \in Slots :
                (inv'[i] # inv[i] /\ inv'[i].pc = "idle" /\ done'.outcome = "error") =>
                    /\ done'.error \in OwnFailures
                    /\ storage' = storage
      ]_vars

\* An invocation has failed in its verification pass while the cache held an
\* entry of another key, and its own key has no entry.
C28_Witness ==
    /\ done.outcome = "error"
    /\ done.calls = 2
    /\ done.error \in {VerificationEmptyError, UnparseableError, TransportError}
    /\ ~storage[done.cacheKey].present
    /\ \E k \in CacheKeys : storage[k].present

----
(* The order of the relocation instructions, under SpecRelocation *)

\* The downloads with downloadAddon alone: relocation instructions are given
\* to no other operation.
NextRelocation == DownloadAddon

SpecRelocation == InitDownload /\ [][NextRelocation]_vars

\* The orders in which the elements of a list can be given.
Reorderings(s) ==
    {[i \in 1..Len(s) |-> s[p[i]]] :
        p \in {q \in [1..Len(s) -> 1..Len(s)] : \A i, j \in 1..Len(s) : i # j => q[i] # q[j]}}

DistinctNewPaths(assetMappings) ==
    \A i, j \in 1..Len(assetMappings) :
        i # j => NewPathOf(assetMappings[i]) # NewPathOf(assetMappings[j])

\* C29: with relocation instructions whose newPath values are pairwise distinct,
\* downloadAddon builds the same archive, the same paths with the same content
\* at each path, from the same generated and uploaded files whatever the order
\* of the instructions.
C29_RelocationOrderIrrelevant ==
    (AddonDone /\ DistinctNewPaths(archiveOp.assetMappings)) =>
        \A reordered \in Reorderings(archiveOp.assetMappings) :
            LET other == downloadAddon(archiveOp.addonName, archiveOp.files,
                                       archiveOp.uploadedFiles, reordered)
            IN  /\ other.threw = archiveOp.result.threw
                /\ DOMAIN other.zip = DOMAIN archiveOp.result.zip
                /\ \A path \in DOMAIN other.zip : other.zip[path] = archiveOp.result.zip[path]

\* A download with two instructions to two new paths of which the first found
\* its asset and the second found none, so that in the other order the
\* instruction without an asset comes first.
C29_Witness ==
    /\ AddonComplete
    /\ Len(archiveOp.assetMappings) >= 2
    /\ DistinctNewPaths(archiveOp.assetMappings)
    /\ archiveOp.result.log[1].found
    /\ ~archiveOp.result.log[2].found
    /\ NewPathOf(archiveOp.assetMappings[1]) \in DOMAIN archiveOp.result.zip

----
(* The tools of the user interface (src/components): a behaviour is the     *)
(* clicks of a user on four tools and the settling of the operations they    *)
(* await                                                                     *)

\* The downloads of the file viewer of the trade editor that may be awaited at
\* one time in a behaviour.
MaxOutstanding == 2
\* The pack files a user gives to the converter.
MaxPacks == 2

Tools == {"AddonCreator", "McaddonConverter", "DownloadButton", "CodeBlock"}

\* The state of the four components after their first render.
UiStart ==
    [creator |-> [stage |-> "input", pc |-> "idle", isLoading |-> FALSE,
                  plan |-> FALSE, experimentalToggles |-> FALSE],
     converter |-> [pc |-> "idle", isLoading |-> FALSE],
     button |-> [pc |-> "idle", isLoading |-> FALSE],
     codeBlock |-> [inFlight |-> 0],
     notice |-> "none"]

OutsideUi == <<storage, cacheOp, keyOp, archiveOp, gatewayOp, inv, done, started, ghost>>

\* AddonCreator.handleGenerate up to its await: the two validations return
\* before the flag is set. The button is rendered in the input stage and is
\* disabled while isLoading.
handleGenerate ==
    /\ ui.creator.stage = "input"
    /\ ~ui.creator.isLoading
    /\ \E promptGiven \in BOOLEAN, nameValid \in BOOLEAN :
        IF ~promptGiven \/ ~nameValid
        THEN ui' = [ui EXCEPT !.notice = "error"]
        ELSE ui' = [ui EXCEPT !.creator.isLoading = TRUE, !.creator.pc = "initiateAddonGeneration"]
    /\ UNCHANGED OutsideUi

\* handleGenerate from the await of initiateAddonGeneration on: a plan is shown
\* for review, files go to handlePostGeneration, which is awaited, and anything
\* else ends in the catch block; the finally block resets the flag.
handleGenerateSettled ==
    /\ ui.creator.pc = "initiateAddonGeneration"
    /\ \E result \in {"plan", "files", "neither", "rejected"} :
        ui' = CASE result = "plan" ->
                        [ui EXCEPT !.creator.plan = TRUE, !.creator.stage = "reviewPlan",
                                   !.creator.pc = "idle", !.creator.isLoading = FALSE,
                                   !.notice = "success"]
                [] result = "files" ->
                        [ui EXCEPT !.creator.stage = "reviewToggles",
                                   !.creator.pc = "detectExperimentalFeatures"]
                [] OTHER ->
                        [ui EXCEPT !.creator.pc = "idle", !.creator.isLoading = FALSE,
                                   !.notice = "error"]
    /\ UNCHANGED OutsideUi

\* AddonCreator.handleGenerateFromPlan up to its await.
handleGenerateFromPlan ==
    /\ ui.creator.stage = "reviewPlan"
    /\ ui.creator.plan
    /\ ~ui.creator.isLoading
    /\ ui' = [ui EXCEPT !.creator.isLoading = TRUE, !.creator.pc = "generateAddonFromPlan"]
    /\ UNCHANGED OutsideUi

\* handleGenerateFromPlan from the await of generateAddonFromPlan on.
handleGenerateFromPlanSettled ==
    /\ ui.creator.pc = "generateAddonFromPlan"
    /\ \E result \in {"files", "rejected"} :
        ui' = IF result = "files"
              THEN [ui EXCEPT !.creator.stage = "reviewToggles",
                              !.creator.pc = "detectExperimentalFeatures"]
              ELSE [ui EXCEPT !.creator.pc = "idle", !.creator.isLoading = FALSE,
                              !.notice = "error"]
    /\ UNCHANGED OutsideUi

\* handlePostGeneration from the await of detectExperimentalFeatures on, and the
\* finally block of the handler that awaited it: a failure of the detection is
\* caught inside handlePostGeneration.
handlePostGenerationSettled ==
    /\ ui.creator.pc = "detectExperimentalFeatures"
    /\ \E result \in {"features", "rejected"} :
        ui' = [ui EXCEPT !.creator.experimentalToggles = TRUE,
                         !.creator.pc = "idle", !.creator.isLoading = FALSE,
                         !.notice = IF result = "rejected" THEN "error" ELSE @]
    /\ UNCHANGED OutsideUi

\* AddonCreator.handleDiscardPlan
handleDiscardPlan ==
    /\ ui.creator.stage = "reviewPlan"
    /\ ui.creator.plan
    /\ ~ui.creator.isLoading
    /\ ui' = [ui EXCEPT !.creator.plan = FALSE, !.creator.stage = "input", !.notice = "info"]
    /\ UNCHANGED OutsideUi

\* AddonCreator.handleFinalizeAndProceed: its button is rendered once the
\* experimental features are known.
handleFinalizeAndProceed ==
    /\ ui.creator.stage = "reviewToggles"
    /\ ui.creator.experimentalToggles
    /\ ui' = [ui EXCEPT !.creator.stage = "input", !.creator.plan = FALSE,
                        !.creator.experimentalToggles = FALSE, !.notice = "success"]
    /\ UNCHANGED OutsideUi

\* Names of pack files: one that names a resource pack, one that names a
\* behaviour pack, one that names neither.
PackNames == {"rp.zip", "bp.zip", "x.zip"}
PackUploads == SeqsUpTo(PackNames, MaxPacks)

\* McaddonConverter.handleConvert up to its await: the two validations return
\* before the flag is set, and files whose pack types cannot be told reset the
\* flag before they return.
handleConvert ==
    /\ ~ui.converter.isLoading
    /\ \E uploadedFiles \in PackUploads, nameValid \in BOOLEAN :
        LET rpFile == \E i \in 1..Len(uploadedFiles) : uploadedFiles[i] = "rp.zip"
            bpFile == \E i \in 1..Len(uploadedFiles) : uploadedFiles[i] = "bp.zip"
        IN  IF Len(uploadedFiles) = 0 \/ ~nameValid
            THEN ui' = [ui EXCEPT !.notice = "error"]
            ELSE IF ~rpFile /\ ~bpFile /\ Len(uploadedFiles) # 1
            THEN ui' = [ui EXCEPT !.converter.isLoading = FALSE, !.notice = "error"]
            ELSE ui' = [ui EXCEPT !.converter.isLoading = TRUE,
                                  !.converter.pc = "downloadMcaddonFromZips",
                                  !.notice = IF (~rpFile /\ ~bpFile) \/ Len(uploadedFiles) > 2
                                             THEN "info" ELSE @]
    /\ UNCHANGED OutsideUi

\* handleConvert from the await of downloadMcaddonFromZips on.
handleConvertSettled ==
    /\ ui.converter.pc = "downloadMcaddonFromZips"
    /\ \E result \in {"downloaded", "rejected"} :
        ui' = [ui EXCEPT !.converter.pc = "idle", !.converter.isLoading = FALSE,
                         !.notice = IF result = "rejected" THEN "error" ELSE "success"]
    /\ UNCHANGED OutsideUi

\* DownloadButton.handleDownload up to its await: the button is disabled by its
\* property, without files, and while isLoading.
DownloadButton_handleDownload ==
    /\ \E disabled \in BOOLEAN, files \in 0..1 :
        ~(disabled \/ files = 0 \/ ui.button.isLoading)
    /\ ui' = [ui EXCEPT !.button.isLoading = TRUE, !.button.pc = "downloadAddon"]
    /\ UNCHANGED OutsideUi

\* DownloadButton.handleDownload from the await of downloadAddon on.
DownloadButton_handleDownloadSettled ==
    /\ ui.button.pc = "downloadAddon"
    /\ \E result \in {"downloaded", "rejected"} :
        ui' = [ui EXCEPT !.button.pc = "idle", !.button.isLoading = FALSE,
                         !.notice = IF result = "rejected" THEN "error" ELSE @]
    /\ UNCHANGED OutsideUi

\* CodeBlock.handleDownload of the trade editor up to its await: the component
\* keeps no flag and its button has no disabled attribute.
CodeBlock_handleDownload ==
    /\ ui.codeBlock.inFlight < MaxOutstanding
    /\ ui' = [ui EXCEPT !.codeBlock.inFlight = @ + 1]
    /\ UNCHANGED OutsideUi

\* CodeBlock.handleDownload from the await of downloadAddon on.
CodeBlock_handleDownloadSettled ==
    /\ ui.codeBlock.inFlight > 0
    /\ \E result \in {"downloaded", "rejected"} :
        ui' = [ui EXCEPT !.codeBlock.inFlight = @ - 1,
                         !.notice = IF result = "rejected" THEN "error" ELSE "success"]
    /\ UNCHANGED OutsideUi

InitUi ==
    /\ ui = UiStart
    /\ archiveOp = ArchiveIdle
    /\ gatewayOp = GatewayOpIdle
    /\ storage = [k \in CacheKeys |-> NoItem]
    /\ cacheOp = CacheIdle
    /\ keyOp = KeyIdle
    /\ GatewayIdle

Clicks ==
    \/ handleGenerate
    \/ handleGenerateFromPlan
    \/ handleDiscardPlan
    \/ handleFinalizeAndProceed
    \/ handleConvert
    \/ DownloadButton_handleDownload
    \/ CodeBlock_handleDownload

Settlements ==
    \/ handleGenerateSettled
    \/ handleGenerateFromPlanSettled
    \/ handlePostGenerationSettled
    \/ handleConvertSettled
    \/ DownloadButton_handleDownloadSettled
    \/ CodeBlock_handleDownloadSettled

NextUi == Clicks \/ Settlements

\* Every awaited operation settles, by a value or by an error: a promise that
\* has settled resumes the handler that awaits it.
SpecUi ==
    /\ InitUi
    /\ [][NextUi]_vars
    /\ WF_vars(handleGenerateSettled)
    /\ WF_vars(handleGenerateFromPlanSettled)
    /\ WF_vars(handlePostGenerationSettled)
    /\ WF_vars(handleConvertSettled)
    /\ WF_vars(DownloadButton_handleDownloadSettled)
    /\ WF_vars(CodeBlock_handleDownloadSettled)

----
(* Properties of the tools, under SpecUi *)

\* The operations a tool awaits.
Outstanding(tool) ==
    CASE tool = "AddonCreator" -> IF ui.creator.pc # "idle" THEN 1 ELSE 0
      [] tool = "McaddonConverter" -> IF ui.converter.pc # "idle" THEN 1 ELSE 0
      [] tool = "DownloadButton" -> IF ui.button.pc # "idle" THEN 1 ELSE 0
      [] tool = "CodeBlock" -> ui.codeBlock.inFlight

\* The loading flag of a tool; the file viewer of the trade editor has none.
IsLoading(tool) ==
    CASE tool = "AddonCreator" -> ui.creator.isLoading
      [] tool = "McaddonConverter" -> ui.converter.isLoading
      [] tool = "DownloadButton" -> ui.button.isLoading
      [] tool = "CodeBlock" -> FALSE

\* The disabled attribute of the button that triggers the tool's operation.
ActionDisabled(tool) == IsLoading(tool)

\* C26: while a tool awaits an operation its triggering action is disabled, so
\* that a tool awaits at most one operation; a tool that awaits nothing has its
\* flag clear; and an operation a tool awaits leads to a state where the tool
\* awaits nothing, its flag is clear and its action is enabled again.
C26_RetriableAfterFailure ==
    /\ [](\A tool \in Tools :
            /\ Outstanding(tool) <= 1
            /\ Outstanding(tool) > 0 => ActionDisabled(tool)
            /\ Outstanding(tool) = 0 => ~IsLoading(tool))
    /\ \A tool \in Tools :
            (Outstanding(tool) > 0) ~>
                (Outstanding(tool) = 0 /\ ~IsLoading(tool) /\ ~ActionDisabled(tool))

====
